---------------------------- MODULE Spec2Model ----------------------------
(***************************************************************************)
(* A model of the native core of the code-indexing engine:                 *)
(*   - the inverted index (BM25)          src/native/src/inverted_index.rs *)
(*   - the catalog (SQLite)               src/native/src/db.rs             *)
(*   - the parser / chunker               src/native/src/parser.rs         *)
(*   - the vector store                   src/native/src/store.rs          *)
(* The four stores are independent resources; each has its own             *)
(* specification (SpecIndex, Spec / SpecSymbols, SpecParser, SpecStore) in *)
(* which the other components rest in their constructed state.             *)
(***************************************************************************)
EXTENDS Integers, Sequences, FiniteSets, TLC

VARIABLES
    \* ---- inverted index (InvertedIndexInner) ----
    term_to_chunks,     \* term -> set of chunk ids (posting sets)
    chunk_tokens,       \* chunk id -> (term -> frequency)
    total_token_count,  \* u64
    index_file,         \* the JSON file at index_path, or NoFile
    ii_ret,             \* what the most recent InvertedIndex call returned
    ii_prev,            \* the most recent call and the counters it started from
    ii_saved,           \* the maps of the index that save last wrote out
    ii_removed,         \* the ids remove_chunk took out: not added since, and
                        \* neither added nor read back by load since
    \* ---- catalog (the SQLite database behind Connection) ----
    foreign_keys,       \* whether this build's SQLite enforces FOREIGN KEY clauses
    embeddings,         \* table embeddings: a set of rows
    chunks,             \* table chunks
    branch_chunks,      \* table branch_chunks: a set of <<branch, chunk_id>>
    symbols,            \* table symbols
    call_edges,         \* table call_edges
    branch_symbols,     \* table branch_symbols: a set of <<branch, symbol_id>>
    db_ret,             \* what the most recent catalog call returned
    \* ---- parser (one call of parse_file_internal) ----
    p_file,             \* the file being parsed: its text and its syntax tree
    p_pc,               \* where the call is: "idle", "start", "walk" or "done"
    p_cursor,           \* how many semantic nodes the tree walk has visited
    p_chunks,           \* the chunks vector
    \* ---- vector store (VectorStoreInner) ----
    vs_index,           \* the usearch index: integer id -> vector
    stored,             \* StoredMetadata: id_to_key, key_to_id, metadata, next_id
    vs_files,           \* the index file and meta.json on disk, or NoFile
    vs_handed,          \* every id ever passed to index.add
    vs_failed,          \* whether some call has returned an error
    vs_ret,             \* what the most recent VectorStore call returned
    \* ---- Database handle (lib.rs): threads calling methods of one handle ----
    mutex,              \* the thread that holds the lock of conn, or NULL
    h_calls,            \* thread -> the method call it is in
    h_log,              \* the calls that have returned, in the order they returned
    \* ---- parse_files_parallel (one call on the rayon pool) ----
    pf_files,           \* the `files` argument
    pf_slots,           \* per input position: what the closure returned, once run
    pf_order,           \* the positions in the order the workers finished them
    pf_ret,             \* where the call is and what it returned
    \* ---- init_db / migrate_schema on one database file ----
    schema_tables,      \* the tables that exist in the file
    schema_rows,        \* rows in the file: a set of <<table, row>>
    stored_version,     \* metadata value under 'schema_version', or NULL
    from_version,       \* current_version as init_db read it
    init_pc,            \* where init_db is: "closed", "v1", ..., "ready", "failed"
    \* ---- one call of extract_calls ----
    ce_lang,            \* language_name
    ce_iter,            \* what captures_iter has still to yield
    ce_calls,           \* calls: the Vec<CallSite> built so far
    ce_ret              \* where extract_calls is, and what it returned

ii_vars == <<term_to_chunks, chunk_tokens, total_token_count, index_file,
             ii_ret, ii_prev, ii_saved, ii_removed>>

db_tables == <<embeddings, chunks, branch_chunks, symbols, call_edges, branch_symbols>>

db_vars == <<foreign_keys, db_tables, db_ret>>

p_vars == <<p_file, p_pc, p_cursor, p_chunks>>

vs_vars == <<vs_index, stored, vs_files, vs_handed, vs_failed, vs_ret>>

h_vars == <<mutex, h_calls, h_log>>

pf_vars == <<pf_files, pf_slots, pf_order, pf_ret>>

mig_vars == <<schema_tables, schema_rows, stored_version, from_version, init_pc>>

ce_vars == <<ce_lang, ce_iter, ce_calls, ce_ret>>

vars == <<ii_vars, db_vars, p_vars, vs_vars, h_vars, pf_vars, mig_vars, ce_vars>>

\* what an operation of one component leaves alone: the other components
not_ii_vars == <<db_vars, p_vars, vs_vars, h_vars, pf_vars, mig_vars, ce_vars>>

not_db_vars == <<ii_vars, p_vars, vs_vars, h_vars, pf_vars, mig_vars, ce_vars>>

not_p_vars == <<ii_vars, db_vars, vs_vars, h_vars, pf_vars, mig_vars, ce_vars>>

not_vs_vars == <<ii_vars, db_vars, p_vars, h_vars, pf_vars, mig_vars, ce_vars>>

\* what a step of a Database method leaves alone
not_h_vars == <<ii_vars, p_vars, vs_vars, foreign_keys, embeddings, branch_chunks,
                symbols, call_edges, branch_symbols, db_ret, pf_vars, mig_vars, ce_vars>>

\* what a step of parse_files_parallel leaves alone
not_pf_vars == <<ii_vars, db_vars, p_vars, vs_vars, h_vars, mig_vars, ce_vars>>

\* what a step of init_db leaves alone
not_mig_vars == <<ii_vars, db_vars, p_vars, vs_vars, h_vars, pf_vars, ce_vars>>

\* what a step of extract_calls leaves alone
not_ce_vars == <<ii_vars, db_vars, p_vars, vs_vars, h_vars, pf_vars, mig_vars>>

NoFile == [absent |-> TRUE]

(***************************************************************************)
(* Generic helpers                                                         *)
(***************************************************************************)
Range(f) == {f[x] : x \in DOMAIN f}

Max2(a, b) == IF a >= b THEN a ELSE b

Min2(a, b) == IF a <= b THEN a ELSE b

RECURSIVE SumSeq(_)
SumSeq(s) == IF s = <<>> THEN 0 ELSE Head(s) + SumSeq(Tail(s))

RECURSIVE SumFun(_)
\* Sum of the values of a function with a finite domain (values().sum()).
SumFun(f) ==
    IF DOMAIN f = {} THEN 0
    ELSE LET x == CHOOSE y \in DOMAIN f : TRUE
         IN f[x] + SumFun([y \in DOMAIN f \ {x} |-> f[y]])

\* All orders in which a finite set can be iterated.
RECURSIVE Orders(_)
Orders(S) ==
    IF S = {} THEN {<<>>}
    ELSE UNION {{<<x>> \o t : t \in Orders(S \ {x})} : x \in S}

(***************************************************************************)
(* Inverted index: texts and tokenization                                  *)
(*                                                                         *)
(* A text is a sequence of characters.  Characters are one-letter strings; *)
(* E_ACUTE / E_ACUTE_UP stand for U+00E9 / U+00C9, which take two bytes in *)
(* UTF-8.                                                                  *)
(***************************************************************************)
E_ACUTE == "e'"
E_ACUTE_UP == "E'"

LowerLetters == {"a", "b", "f", "o", "r", "z", E_ACUTE}
UpperLetters == {"B", "F", E_ACUTE_UP}
Digits == {"1"}

\* char::to_lowercase on the characters of the model's alphabet
ToLowercase(c) ==
    CASE c = "B" -> "b"
      [] c = "F" -> "f"
      [] c = E_ACUTE_UP -> E_ACUTE
      [] OTHER -> c

\* char::is_alphanumeric
IsAlphanumeric(c) == c \in LowerLetters \cup UpperLetters \cup Digits

\* number of UTF-8 bytes of a character
Utf8Len(c) == IF c \in {E_ACUTE, E_ACUTE_UP} THEN 2 ELSE 1

\* str::len(): the byte length of a token
RECURSIVE StrLen(_)
StrLen(s) == IF s = <<>> THEN 0 ELSE Utf8Len(Head(s)) + StrLen(Tail(s))

\* str::split_whitespace on a text whose only whitespace is " "
RECURSIVE SplitWhitespace(_, _)
SplitWhitespace(s, cur) ==
    IF s = <<>> THEN (IF cur = <<>> THEN <<>> ELSE <<cur>>)
    ELSE IF Head(s) = " "
         THEN (IF cur = <<>> THEN <<>> ELSE <<cur>>) \o SplitWhitespace(Tail(s), <<>>)
         ELSE SplitWhitespace(Tail(s), Append(cur, Head(s)))

\* the minimum byte length a token must exceed
MIN_TOKEN_LEN == 2

\* the same tokenizer with the length filter off by one (keeps 2-byte tokens)
tokenizeKeepsShort(text) ==
    LET lowered == [i \in 1..Len(text) |-> ToLowercase(text[i])]
        spaced  == [i \in 1..Len(text) |->
                       IF IsAlphanumeric(lowered[i]) THEN lowered[i] ELSE " "]
    IN SelectSeq(SplitWhitespace(spaced, <<>>), LAMBDA t : StrLen(t) >= MIN_TOKEN_LEN)

\* InvertedIndexInner::tokenize
tokenize(text) ==
    LET lowered == [i \in 1..Len(text) |-> ToLowercase(text[i])]
        spaced  == [i \in 1..Len(text) |->
                       IF IsAlphanumeric(lowered[i]) THEN lowered[i] ELSE " "]
    IN SelectSeq(SplitWhitespace(spaced, <<>>), LAMBDA t : StrLen(t) > MIN_TOKEN_LEN)

\* The texts the model feeds to add_chunk and search.
TxtFooBar    == <<"F", "o", "o", " ", "b", "a", "r">>             \* "Foo bar"
TxtFooFoo    == <<"f", "o", "o", "-", "f", "o", "o", " ", "a", "b">> \* "foo-foo ab"
TxtShort     == <<"a", "b", " ", E_ACUTE_UP, "a">>                 \* "ab Éa"
TxtEmpty     == <<>>                                               \* ""
TxtFoo       == <<"f", "o", "o">>                                  \* "foo"
TxtBarBaz    == <<"b", "a", "r", " ", "B", "a", "z", "1">>         \* "bar Baz1"

Contents == {TxtFooBar, TxtFooFoo}
Queries  == {TxtFoo, TxtBarBaz, TxtShort, TxtEmpty}
ChunkIds == {"c1", "c2"}

\* bound on total_token_count (it grows without limit when an id is re-added)
MaxTotalTokens == 6

(***************************************************************************)
(* Inverted index: fixed-point arithmetic for the f64 scores               *)
(*                                                                         *)
(* A score is an integer number of 1/Scale units.  ln is the series        *)
(* 2 * sum_k z^(2k+1)/(2k+1), z = (x-1)/(x+1), cut after LnTerms terms.    *)
(***************************************************************************)
Scale == 10000
LnTerms == 12

RECURSIVE LnSeries(_, _, _)
LnSeries(p, z2, k) ==
    IF k > LnTerms THEN 0
    ELSE (p \div (2 * k + 1)) + LnSeries((p * z2) \div Scale, z2, k + 1)

\* f64::ln of the rational num/den (num, den > 0), in 1/Scale units
Ln(num, den) ==
    LET z  == ((num - den) * Scale) \div (num + den)
        z2 == (z * z) \div Scale
    IN 2 * LnSeries(z, z2, 0)

\* k1 = 1.2 and b = 0.75 as the rationals K1_NUM/K1_DEN and B_NUM/B_DEN
K1_NUM == 6
K1_DEN == 5
B_NUM == 3
B_DEN == 4
\* the average document length reported for an empty index (100.0)
DEFAULT_AVG_DOC_LENGTH == 100

\* InvertedIndexInner::get_avg_doc_length, as the rational <<num, den>>
get_avg_doc_length(tokens, total) ==
    LET count == Cardinality(DOMAIN tokens)
    IN IF count > 0 THEN <<total, count>> ELSE <<DEFAULT_AVG_DOC_LENGTH, 1>>

\* InvertedIndexInner::document_count
document_count(tokens) == Cardinality(DOMAIN tokens)

\* InvertedIndexInner::has_chunk
has_chunk(tokens, chunk_id) == chunk_id \in DOMAIN tokens

\* idf = ln((n - df + 0.5) / (df + 0.5) + 1.0) = ln((2n + 2) / (2df + 1))
Idf(n, df) == Ln(2 * n + 2, 2 * df + 1)

\* idf * tf_norm for one query term, with
\* tf_norm = tf (k1 + 1) / (tf + k1 (1 - b + b dl / avg)), avg = avg[1]/avg[2];
\* numerator and denominator are multiplied through by K1_DEN * B_DEN * avg[1].
TermScore(idf, tf, dl, avg) ==
    LET num == tf * (K1_NUM + K1_DEN) * B_DEN * avg[1]
        den == tf * K1_DEN * B_DEN * avg[1]
               + K1_NUM * ((B_DEN - B_NUM) * avg[1] + B_NUM * dl * avg[2])
    IN (idf * num) \div den

\* the BM25 score of one candidate chunk: the loop over query_tokens
RECURSIVE ChunkScore(_, _, _, _, _)
ChunkScore(qtokens, term_freq, postings, n, avg) ==
    IF qtokens = <<>> THEN 0
    ELSE LET term == Head(qtokens)
             tf   == IF term \in DOMAIN term_freq THEN term_freq[term] ELSE 0
             df   == IF term \in DOMAIN postings THEN Cardinality(postings[term]) ELSE 0
             rest == ChunkScore(Tail(qtokens), term_freq, postings, n, avg)
         IN IF tf = 0 THEN rest
            ELSE TermScore(Idf(n, df), tf, SumFun(term_freq), avg) + rest

\* the union of the posting sets of the query tokens
candidate_chunks(qtokens, postings) ==
    UNION {postings[t] : t \in Range(qtokens) \cap DOMAIN postings}

\* the candidates with their raw scores, without `if score > 0.0`
RawScoresKeepsZero(qtokens, postings, tokens, total) ==
    LET n   == Cardinality(DOMAIN tokens)
        avg == get_avg_doc_length(tokens, total)
    IN {<<c, ChunkScore(qtokens, tokens[c], postings, n, avg)>> :
            c \in candidate_chunks(qtokens, postings) \cap DOMAIN tokens}

\* the (chunk_id, raw score) pairs kept by `if score > 0.0`
RawScores(qtokens, postings, tokens, total) ==
    LET n   == Cardinality(DOMAIN tokens)
        avg == get_avg_doc_length(tokens, total)
        sc(c) == ChunkScore(qtokens, tokens[c], postings, n, avg)
    IN {<<c, sc(c)>> : c \in {d \in candidate_chunks(qtokens, postings) \cap DOMAIN tokens :
                                   sc(d) > 0}}

\* the largest raw score, the f64::max part of the fold
MaxScoreNoFloor(raw) ==
    IF raw = {} THEN Scale
    ELSE CHOOSE m \in {r[2] : r \in raw} : \A r \in raw : r[2] <= m

\* max_score = scores.fold(1.0, f64::max)
MaxScore(raw) ==
    LET m == MaxScoreNoFloor(raw) IN Max2(Scale, m)

\* a score divided by max_score; x / x is exactly 1.0
Normalize(score, max_score) == (score * Scale) \div max_score

IsSortedDesc(s) == \A i \in 1..(Len(s) - 1) : s[i][2] >= s[i + 1][2]

\* InvertedIndexInner::search: every list the call can return (candidates are
\* visited in HashSet order and the sort is stable, so ties come in any order)
search(query, postings, tokens, total) ==
    LET qtokens == tokenize(query)
    IN IF qtokens = <<>> THEN {<<>>}
       ELSE LET raw  == RawScores(qtokens, postings, tokens, total)
                mx   == MaxScore(raw)
                norm == {<<r[1], Normalize(r[2], mx)>> : r \in raw}
            IN {s \in Orders(norm) : IsSortedDesc(s)}

(***************************************************************************)
(* Inverted index: operations                                              *)
(***************************************************************************)
EmptyMap == <<>>

\* term_freq: how often each token occurs in the token list
TermFreq(toks) ==
    [t \in Range(toks) |-> Cardinality({i \in DOMAIN toks : toks[i] = t})]

\* InvertedIndexInner::add_chunk
add_chunk(chunk_id, content, postings, tokens, total) ==
    LET toks == tokenize(content)
        ts   == Range(toks)
    IN [term_to_chunks |->
            [t \in DOMAIN postings \cup ts |->
                IF t \in ts
                THEN (IF t \in DOMAIN postings THEN postings[t] ELSE {}) \cup {chunk_id}
                ELSE postings[t]],
        chunk_tokens |->
            [c \in DOMAIN tokens \cup {chunk_id} |->
                IF c = chunk_id THEN TermFreq(toks) ELSE tokens[c]],
        total_token_count |-> total + Len(toks)]

\* remove_chunk that erases the id from the posting sets but keeps emptied sets
remove_chunk_keeps_empty(chunk_id, postings, tokens, total) ==
    IF chunk_id \notin DOMAIN tokens
    THEN [term_to_chunks |-> postings, chunk_tokens |-> tokens,
          total_token_count |-> total, ret |-> FALSE]
    ELSE LET removed == tokens[chunk_id]
         IN [term_to_chunks |->
                 [t \in DOMAIN postings |->
                     IF t \in DOMAIN removed THEN postings[t] \ {chunk_id}
                     ELSE postings[t]],
             chunk_tokens |-> [c \in DOMAIN tokens \ {chunk_id} |-> tokens[c]],
             total_token_count |-> Max2(0, total - SumFun(removed)),
             ret |-> TRUE]

\* InvertedIndexInner::remove_chunk.  The per-token saturating_sub calls leave
\* max(0, total - sum of the removed frequencies).
remove_chunk(chunk_id, postings, tokens, total) ==
    IF chunk_id \notin DOMAIN tokens
    THEN [term_to_chunks |-> postings, chunk_tokens |-> tokens,
          total_token_count |-> total, ret |-> FALSE]
    ELSE LET removed == tokens[chunk_id]
             emptied == {t \in DOMAIN removed \cap DOMAIN postings :
                            postings[t] \ {chunk_id} = {}}
         IN [term_to_chunks |->
                 [t \in DOMAIN postings \ emptied |->
                     IF t \in DOMAIN removed THEN postings[t] \ {chunk_id}
                     ELSE postings[t]],
             chunk_tokens |-> [c \in DOMAIN tokens \ {chunk_id} |-> tokens[c]],
             total_token_count |-> Max2(0, total - SumFun(removed)),
             ret |-> TRUE]

\* a set written out as a JSON array (one fixed order per set)
RECURSIVE SetToList(_)
SetToList(S) ==
    IF S = {} THEN <<>>
    ELSE LET x == CHOOSE y \in S : TRUE IN <<x>> \o SetToList(S \ {x})

\* InvertedIndexInner::save: the InvertedIndexData written to index_path
save_data(postings, tokens, total) ==
    [term_to_chunks |-> [t \in DOMAIN postings |-> SetToList(postings[t])],
     chunk_tokens   |-> tokens,
     avg_doc_length |-> get_avg_doc_length(tokens, total)]

\* a load that keeps only the first chunk id of every posting list
load_data_first_posting(data) ==
    [term_to_chunks |-> [t \in DOMAIN data.term_to_chunks |->
                            {data.term_to_chunks[t][1]}],
     chunk_tokens |-> data.chunk_tokens,
     total_token_count |->
         SumFun([c \in DOMAIN data.chunk_tokens |-> SumFun(data.chunk_tokens[c])])]

\* InvertedIndexInner::load: the state rebuilt from an InvertedIndexData
load_data(data) ==
    [term_to_chunks |-> [t \in DOMAIN data.term_to_chunks |->
                            Range(data.term_to_chunks[t])],
     chunk_tokens |-> data.chunk_tokens,
     total_token_count |->
         SumFun([c \in DOMAIN data.chunk_tokens |-> SumFun(data.chunk_tokens[c])])]

NoPrev == [op |-> "other", id |-> "", doc_count |-> 0, total |-> 0, present |-> FALSE]

\* InvertedIndexInner::new
IndexFresh ==
    /\ term_to_chunks = EmptyMap
    /\ chunk_tokens = EmptyMap
    /\ total_token_count = 0
    /\ index_file = NoFile
    /\ ii_saved = [term_to_chunks |-> EmptyMap, chunk_tokens |-> EmptyMap]
    /\ ii_removed = [since_add |-> {}, since_add_or_load |-> {}]
    /\ ii_ret = [op |-> "new", value |-> TRUE]
    /\ ii_prev = NoPrev

\* InvertedIndex::new on the same path (a restart): memory is fresh, the file stays
IndexNew ==
    /\ UNCHANGED not_ii_vars
    /\ term_to_chunks' = EmptyMap
    /\ chunk_tokens' = EmptyMap
    /\ total_token_count' = 0
    /\ ii_ret' = [op |-> "new", value |-> TRUE]
    /\ ii_prev' = NoPrev
    /\ UNCHANGED <<index_file, ii_saved, ii_removed>>

IndexAddChunk ==
    /\ UNCHANGED not_ii_vars
    /\ \E chunk_id \in ChunkIds, content \in Contents :
        LET r == add_chunk(chunk_id, content, term_to_chunks, chunk_tokens,
                           total_token_count)
        IN /\ r.total_token_count <= MaxTotalTokens
           /\ term_to_chunks' = r.term_to_chunks
           /\ chunk_tokens' = r.chunk_tokens
           /\ total_token_count' = r.total_token_count
           /\ ii_ret' = [op |-> "add_chunk", value |-> TRUE]
           /\ ii_prev' = [op |-> "add_chunk", id |-> chunk_id,
                          doc_count |-> document_count(chunk_tokens),
                          total |-> total_token_count,
                          present |-> has_chunk(chunk_tokens, chunk_id)]
           /\ ii_removed' = [since_add |-> ii_removed.since_add \ {chunk_id},
                             since_add_or_load |->
                                 ii_removed.since_add_or_load \ {chunk_id}]
           /\ UNCHANGED <<index_file, ii_saved>>

IndexRemoveChunk ==
    /\ UNCHANGED not_ii_vars
    /\ \E chunk_id \in ChunkIds :
        LET r == remove_chunk(chunk_id, term_to_chunks, chunk_tokens,
                              total_token_count)
        IN /\ term_to_chunks' = r.term_to_chunks
           /\ chunk_tokens' = r.chunk_tokens
           /\ total_token_count' = r.total_token_count
           /\ ii_ret' = [op |-> "remove_chunk", value |-> r.ret]
           /\ ii_prev' = IF ii_prev.op = "add_chunk" /\ ii_prev.id = chunk_id
                          THEN [ii_prev EXCEPT !.op = "add_remove"]
                          ELSE NoPrev
           /\ ii_removed' = IF r.ret
                             THEN [since_add |-> ii_removed.since_add \cup {chunk_id},
                                   since_add_or_load |->
                                       ii_removed.since_add_or_load \cup {chunk_id}]
                             ELSE ii_removed
           /\ UNCHANGED <<index_file, ii_saved>>

IndexSearch ==
    /\ UNCHANGED not_ii_vars
    /\ \E query \in Queries :
        \E res \in search(query, term_to_chunks, chunk_tokens, total_token_count) :
            /\ ii_ret' = [op |-> "search", value |-> res, query |-> query]
            /\ ii_prev' = NoPrev
            /\ UNCHANGED <<term_to_chunks, chunk_tokens, total_token_count, index_file,
                         ii_saved, ii_removed>>

\* InvertedIndexInner::clear
IndexClear ==
    /\ UNCHANGED not_ii_vars
    /\ term_to_chunks' = EmptyMap
    /\ chunk_tokens' = EmptyMap
    /\ total_token_count' = 0
    /\ ii_ret' = [op |-> "clear", value |-> TRUE]
    /\ ii_prev' = NoPrev
    /\ UNCHANGED <<index_file, ii_saved, ii_removed>>

IndexSave ==
    /\ UNCHANGED not_ii_vars
    /\ index_file' = save_data(term_to_chunks, chunk_tokens, total_token_count)
    /\ ii_saved' = [term_to_chunks |-> term_to_chunks, chunk_tokens |-> chunk_tokens]
    /\ ii_ret' = [op |-> "save", value |-> TRUE]
    /\ ii_prev' = NoPrev
    /\ UNCHANGED <<term_to_chunks, chunk_tokens, total_token_count, ii_removed>>

IndexLoad ==
    /\ UNCHANGED not_ii_vars
    /\ IF index_file = NoFile
       THEN UNCHANGED <<term_to_chunks, chunk_tokens, total_token_count, ii_removed>>
       ELSE LET r == load_data(index_file)
            IN /\ term_to_chunks' = r.term_to_chunks
               /\ chunk_tokens' = r.chunk_tokens
               /\ total_token_count' = r.total_token_count
               /\ ii_removed' = [ii_removed EXCEPT !.since_add_or_load =
                                                     @ \ DOMAIN r.chunk_tokens]
    /\ ii_ret' = [op |-> "load", value |-> TRUE,
                  fresh |-> term_to_chunks = EmptyMap /\ chunk_tokens = EmptyMap]
    /\ ii_prev' = NoPrev
    /\ UNCHANGED <<index_file, ii_saved>>

NextIndex ==
    \/ IndexNew
    \/ IndexAddChunk
    \/ IndexRemoveChunk
    \/ IndexSearch
    \/ IndexClear
    \/ IndexSave
    \/ IndexLoad

(***************************************************************************)
(* Catalog: rows and inputs                                                *)
(*                                                                         *)
(* A table is the set of its rows; a row is a record of its columns.       *)
(* NULL is the SQL NULL (Rust None).                                       *)
(***************************************************************************)
NULL == "<null>"

Branches   == {"main", "feature"}
DbChunkIds == {"k1", "k2"}
Hashes     == {"h1", "h2"}
FilePaths  == {"f1", "f2"}
SymbolIds  == {"s1", "s2"}
EdgeIds    == {"e1", "e2"}
\* unix seconds returned by strftime('%s', 'now')
Times      == {1, 2}

\* longest id list passed to add_chunks_to_branch / add_symbols_to_branch
MaxIdList == 2

\* the ChunkRow values the model upserts
ChunkRows ==
    UNION {{[chunk_id |-> k, content_hash |-> "h1", file_path |-> "f1",
             start_line |-> 10, end_line |-> 20, node_type |-> "function",
             name |-> "main", language |-> "rust"],
            [chunk_id |-> k, content_hash |-> "h2", file_path |-> "f2",
             start_line |-> 1, end_line |-> 1, node_type |-> NULL,
             name |-> NULL, language |-> "python"]} : k \in DbChunkIds}

\* the (content_hash, embedding, chunk_text, model) tuples the model upserts
EmbeddingInputs ==
    UNION {{[content_hash |-> h, embedding |-> <<1, 2, 3>>, chunk_text |-> "t1",
             model |-> "m1"],
            [content_hash |-> h, embedding |-> <<4>>, chunk_text |-> "t2",
             model |-> "m2"]} : h \in Hashes}

\* sequences over S of length at most n
SeqsUpTo(S, n) == UNION {[1..k -> S] : k \in 0..n}

(***************************************************************************)
(* Catalog: chunk-side statements                                          *)
(***************************************************************************)
\* INSERT OR REPLACE: the conflicting row is replaced as a whole
upsert_embedding_or_replace(tbl, e, now) ==
    {x \in tbl : x.content_hash # e.content_hash}
        \cup {[content_hash |-> e.content_hash, embedding |-> e.embedding,
                chunk_text |-> e.chunk_text, model |-> e.model, created_at |-> now]}

\* upsert_embedding: INSERT ... ON CONFLICT(content_hash) DO UPDATE SET
\* embedding = excluded.embedding, model = excluded.model
upsert_embedding(tbl, e, now) ==
    IF \E x \in tbl : x.content_hash = e.content_hash
    THEN {IF x.content_hash = e.content_hash
          THEN [x EXCEPT !.embedding = e.embedding, !.model = e.model]
          ELSE x : x \in tbl}
    ELSE tbl \cup {[content_hash |-> e.content_hash, embedding |-> e.embedding,
                    chunk_text |-> e.chunk_text, model |-> e.model,
                    created_at |-> now]}

\* a plain INSERT that keeps the row already stored under the chunk_id
upsert_chunk_no_conflict_clause(tbl, r) == tbl \cup {r}

\* upsert_chunk: INSERT ... ON CONFLICT(chunk_id) DO UPDATE SET every other column
upsert_chunk(tbl, r) ==
    IF \E x \in tbl : x.chunk_id = r.chunk_id
    THEN {IF x.chunk_id = r.chunk_id
          THEN [x EXCEPT !.content_hash = r.content_hash, !.file_path = r.file_path,
                         !.start_line = r.start_line, !.end_line = r.end_line,
                         !.node_type = r.node_type, !.name = r.name,
                         !.language = r.language]
          ELSE x : x \in tbl}
    ELSE tbl \cup {r}

\* get_chunk: query_row(...).optional(): the rows the SELECT yields, of which
\* query_row returns the first, or NULL when there is none
get_chunk(tbl, chunk_id) ==
    LET rows == {x \in tbl : x.chunk_id = chunk_id}
    IN IF rows = {} THEN {NULL} ELSE rows

\* delete_chunks_by_file: DELETE FROM chunks WHERE file_path = ?
delete_chunks_by_file(tbl, file_path) == {x \in tbl : x.file_path # file_path}

\* add_chunks_to_branch: INSERT OR IGNORE per id
RECURSIVE add_chunks_to_branch(_, _, _)
add_chunks_to_branch(tbl, branch, chunk_ids) ==
    IF chunk_ids = <<>> THEN tbl
    ELSE add_chunks_to_branch(tbl \cup {<<branch, Head(chunk_ids)>>}, branch,
                              Tail(chunk_ids))

\* clear_branch: DELETE FROM branch_chunks WHERE branch = ?
\* the DELETE without its WHERE clause
clear_every_branch(tbl, branch) == {}

clear_branch(tbl, branch) == {p \in tbl : p[1] # branch}

\* SELECT chunk_id FROM branch_chunks WHERE branch = ?
branch_chunk_ids(tbl, branch) == {p[2] : p \in {q \in tbl : q[1] = branch}}

\* the SELECT without its WHERE clause: the chunk ids of every branch
get_branch_chunk_ids_any_branch(tbl, branch) ==
    {[i \in 1..Len(o) |-> o[i][2]] : o \in Orders(tbl)}

\* get_branch_chunk_ids: the chunk_id column of the rows of one branch, in the
\* order SQLite yields them
get_branch_chunk_ids(tbl, branch) ==
    {[i \in 1..Len(o) |-> o[i][2]] : o \in Orders({p \in tbl : p[1] = branch})}

\* the delta query with IN where the statement has NOT IN
delta_query_in(tbl, branch, other) ==
    {p[2] : p \in {q \in tbl : q[1] = branch /\ q[2] \in branch_chunk_ids(tbl, other)}}

\* SELECT bc.chunk_id FROM branch_chunks bc WHERE bc.branch = ?1
\*   AND bc.chunk_id NOT IN (SELECT chunk_id FROM branch_chunks WHERE branch = ?2)
delta_query(tbl, branch, other) ==
    {p[2] : p \in {q \in tbl : q[1] = branch /\ q[2] \notin branch_chunk_ids(tbl, other)}}

\* get_branch_delta: every BranchDelta the call can return (rows come in any order)
get_branch_delta(tbl, branch, base_branch) ==
    {[added |-> a, removed |-> r] :
        a \in Orders(delta_query(tbl, branch, base_branch)),
        r \in Orders(delta_query(tbl, base_branch, branch))}

\* a WHERE clause that also sweeps embeddings of chunks attached to no branch
orphan_embeddings_by_branch(emb, chk) ==
    {e \in emb : e.content_hash \notin
        {c.content_hash : c \in {d \in chk : \E p \in branch_chunks : p[2] = d.chunk_id}}}

\* the rows matched by WHERE content_hash NOT IN
\* (SELECT DISTINCT content_hash FROM chunks)
orphan_embeddings(emb, chk) ==
    {e \in emb : e.content_hash \notin {c.content_hash : c \in chk}}

\* gc_orphan_embeddings: DELETE FROM embeddings WHERE ...; execute returns the
\* number of rows it deleted
gc_orphan_embeddings(emb, chk) ==
    [embeddings |-> emb \ orphan_embeddings(emb, chk),
     count |-> Cardinality(orphan_embeddings(emb, chk))]

\* gc_orphan_chunks: DELETE FROM chunks WHERE chunk_id NOT IN
\* (SELECT DISTINCT chunk_id FROM branch_chunks); the rows that remain
gc_orphan_chunks(chk, bc) ==
    LET orphans == {c \in chk : c.chunk_id \notin {p[2] : p \in bc}}
    IN [chunks |-> chk \ orphans, count |-> Cardinality(orphans)]

(***************************************************************************)
(* Catalog: chunk-side operations                                          *)
(***************************************************************************)
symbol_tables == <<symbols, call_edges, branch_symbols>>

DbUpsertEmbedding ==
    /\ UNCHANGED not_db_vars
    /\ \E e \in EmbeddingInputs, now \in Times :
        /\ embeddings' = upsert_embedding(embeddings, e, now)
        /\ db_ret' = [op |-> "upsert_embedding", ok |-> TRUE, value |-> e]
    /\ UNCHANGED <<foreign_keys, chunks, branch_chunks, symbol_tables>>

DbUpsertChunk ==
    /\ UNCHANGED not_db_vars
    /\ \E r \in ChunkRows :
        /\ chunks' = upsert_chunk(chunks, r)
        /\ db_ret' = [op |-> "upsert_chunk", value |-> r,
                      replaced |-> \E x \in chunks : x.chunk_id = r.chunk_id /\ x # r]
    /\ UNCHANGED <<foreign_keys, embeddings, branch_chunks, symbol_tables>>

DbGetChunk ==
    /\ UNCHANGED not_db_vars
    /\ \E chunk_id \in DbChunkIds :
        \E row \in get_chunk(chunks, chunk_id) :
            db_ret' = [op |-> "get_chunk", value |-> row]
    /\ UNCHANGED <<foreign_keys, db_tables>>

DbDeleteChunksByFile ==
    /\ UNCHANGED not_db_vars
    /\ \E file_path \in FilePaths :
        /\ chunks' = delete_chunks_by_file(chunks, file_path)
        /\ db_ret' = [op |-> "delete_chunks_by_file",
                      value |-> Cardinality(chunks \ chunks')]
    /\ UNCHANGED <<foreign_keys, embeddings, branch_chunks, symbol_tables>>

\* add_chunks_to_branch runs one autocommitted statement per id.  fail_at = 0:
\* every statement succeeds; fail_at = i: SQLite rejects the i-th statement
\* (SQLITE_BUSY, SQLITE_FULL, an I/O error) and `?` returns the error.
DbAddChunksToBranch ==
    /\ UNCHANGED not_db_vars
    /\ \E branch \in Branches, chunk_ids \in SeqsUpTo(DbChunkIds, MaxIdList) :
        \E fail_at \in 0..Len(chunk_ids) :
            /\ branch_chunks' =
                  IF fail_at = 0
                  THEN add_chunks_to_branch(branch_chunks, branch, chunk_ids)
                  ELSE add_chunks_to_branch(branch_chunks, branch,
                                            SubSeq(chunk_ids, 1, fail_at - 1))
            /\ db_ret' = [op |-> "add_chunks_to_branch", ok |-> fail_at = 0,
                          value |-> TRUE,
                          readded |-> /\ chunk_ids # <<>>
                                      /\ \A i \in 1..Len(chunk_ids) :
                                            <<branch, chunk_ids[i]>> \in branch_chunks]
    /\ UNCHANGED <<foreign_keys, embeddings, chunks, symbol_tables>>

DbGetBranchChunkIds ==
    /\ UNCHANGED not_db_vars
    /\ \E branch \in Branches :
        \E ids \in get_branch_chunk_ids(branch_chunks, branch) :
            db_ret' = [op |-> "get_branch_chunk_ids", ok |-> TRUE, value |-> ids]
    /\ UNCHANGED <<foreign_keys, db_tables>>

DbClearBranch ==
    /\ UNCHANGED not_db_vars
    /\ \E branch \in Branches :
        /\ branch_chunks' = clear_branch(branch_chunks, branch)
        /\ db_ret' = [op |-> "clear_branch", branch |-> branch,
                      value |-> Cardinality(branch_chunks \ branch_chunks'),
                      removed |-> {p[2] : p \in branch_chunks \ branch_chunks'}]
    /\ UNCHANGED <<foreign_keys, embeddings, chunks, symbol_tables>>

DbGetBranchDelta ==
    /\ UNCHANGED not_db_vars
    /\ \E branch \in Branches, base_branch \in Branches :
        \E d \in get_branch_delta(branch_chunks, branch, base_branch) :
            db_ret' = [op |-> "get_branch_delta", branch |-> branch,
                       base_branch |-> base_branch, value |-> d]
    /\ UNCHANGED <<foreign_keys, db_tables>>

DbGcOrphanEmbeddings ==
    /\ UNCHANGED not_db_vars
    /\ LET r == gc_orphan_embeddings(embeddings, chunks)
       IN /\ embeddings' = r.embeddings
          /\ db_ret' = [op |-> "gc_orphan_embeddings", value |-> r.count]
    /\ UNCHANGED <<foreign_keys, chunks, branch_chunks, symbol_tables>>

DbGcOrphanChunks ==
    /\ UNCHANGED not_db_vars
    /\ LET r == gc_orphan_chunks(chunks, branch_chunks)
       IN /\ chunks' = r.chunks
          /\ db_ret' = [op |-> "gc_orphan_chunks", value |-> r.count,
                        cleared |-> IF db_ret.op = "clear_branch"
                                    THEN db_ret.removed ELSE {}]
    /\ UNCHANGED <<foreign_keys, embeddings, branch_chunks, symbol_tables>>

\* init_db on a new file: migrate_schema has created the empty tables
DbFresh ==
    /\ embeddings = {}
    /\ chunks = {}
    /\ branch_chunks = {}
    /\ symbols = {}
    /\ call_edges = {}
    /\ branch_symbols = {}
    /\ db_ret = [op |-> "init_db", value |-> TRUE]

Next ==
    \/ DbUpsertEmbedding
    \/ DbUpsertChunk
    \/ DbGetChunk
    \/ DbDeleteChunksByFile
    \/ DbAddChunksToBranch
    \/ DbClearBranch
    \/ DbGetBranchDelta
    \/ DbGcOrphanEmbeddings
    \/ DbGcOrphanChunks

(***************************************************************************)
(* Catalog: symbols and call edges                                         *)
(***************************************************************************)
\* the SymbolRow values the model upserts
SymbolRows ==
    UNION {{[id |-> i, file_path |-> "f1", name |-> "foo", kind |-> "function",
             start_line |-> 1, start_col |-> 0, end_line |-> 5, end_col |-> 1,
             language |-> "rust"],
            [id |-> i, file_path |-> f, name |-> "bar", kind |-> "method",
             start_line |-> 1, start_col |-> 4, end_line |-> 1, end_col |-> 9,
             language |-> "python"]} : i \in SymbolIds, f \in {"f2"}}

\* the CallEdgeRow values the model upserts
CallEdgeRows ==
    UNION {{[id |-> i, from_symbol_id |-> f, target_name |-> "foo",
             to_symbol_id |-> NULL, call_type |-> "Call", line |-> 3, col |-> 7,
             is_resolved |-> FALSE],
            [id |-> i, from_symbol_id |-> f, target_name |-> "bar",
             to_symbol_id |-> "s2", call_type |-> "MethodCall", line |-> 4,
             col |-> 0, is_resolved |-> TRUE]} : i \in EdgeIds, f \in SymbolIds}

\* the symbols resolve_call_edge is asked to point an edge at
ResolveTargets == {"s2"}

\* `edge.is_resolved as i32`
BoolAsI32(b) == IF b THEN 1 ELSE 0

\* the call_edges row that the VALUES clause of upsert_call_edge binds
EdgeToSql(e) == [e EXCEPT !.is_resolved = BoolAsI32(e.is_resolved)]

\* the CallEdgeRow the query_map closure builds from a call_edges row
EdgeFromSql(x) == [x EXCEPT !.is_resolved = (x.is_resolved # 0)]

\* upsert_symbol: INSERT OR REPLACE INTO symbols
upsert_symbol(tbl, r) == {x \in tbl : x.id # r.id} \cup {r}

\* upsert_call_edge: INSERT OR REPLACE INTO call_edges; with foreign keys
\* enforced the statement fails unless from_symbol_id names a symbols row
upsert_call_edge(edges, syms, fk, e) ==
    IF fk /\ e.from_symbol_id \notin {x.id : x \in syms}
    THEN [ok |-> FALSE, call_edges |-> edges]
    ELSE [ok |-> TRUE,
          call_edges |-> {x \in edges : x.id # e.id} \cup {EdgeToSql(e)}]

\* get_symbols_by_file: SELECT ... WHERE file_path = ? ORDER BY start_line
get_symbols_by_file(syms, file_path) ==
    {o \in Orders({x \in syms : x.file_path = file_path}) :
        \A i \in 1..(Len(o) - 1) : o[i].start_line <= o[i + 1].start_line}

\* delete_symbols_by_file: DELETE FROM symbols WHERE file_path = ?; with foreign
\* keys enforced the statement fails while a call edge still names a deleted row
delete_symbols_by_file(syms, edges, fk, file_path) ==
    LET victims == {x \in syms : x.file_path = file_path}
    IN IF fk /\ \E e \in edges : e.from_symbol_id \in {x.id : x \in victims}
       THEN [ok |-> FALSE, symbols |-> syms, count |-> 0]
       ELSE [ok |-> TRUE, symbols |-> syms \ victims, count |-> Cardinality(victims)]

\* the DELETE without its WHERE clause
delete_call_edges_every_file(edges, syms, file_path) ==
    [call_edges |-> {}, count |-> Cardinality(edges)]

\* delete_call_edges_by_file: DELETE FROM call_edges WHERE from_symbol_id IN
\* (SELECT id FROM symbols WHERE file_path = ?)
delete_call_edges_by_file(edges, syms, file_path) ==
    LET victims == {e \in edges : e.from_symbol_id \in
                      {x.id : x \in {y \in syms : y.file_path = file_path}}}
    IN [call_edges |-> edges \ victims, count |-> Cardinality(victims)]

\* the UPDATE without its WHERE clause
resolve_every_call_edge(edges, edge_id, to_symbol_id) ==
    {[x EXCEPT !.to_symbol_id = to_symbol_id, !.is_resolved = 1] : x \in edges}

\* resolve_call_edge: UPDATE call_edges SET to_symbol_id = ?, is_resolved = 1
\* WHERE id = ?
resolve_call_edge(edges, edge_id, to_symbol_id) ==
    {IF x.id = edge_id
     THEN [x EXCEPT !.to_symbol_id = to_symbol_id, !.is_resolved = 1]
     ELSE x : x \in edges}

\* add_symbols_to_branch: INSERT OR IGNORE per id
RECURSIVE add_symbols_to_branch(_, _, _)
add_symbols_to_branch(tbl, branch, symbol_ids) ==
    IF symbol_ids = <<>> THEN tbl
    ELSE add_symbols_to_branch(tbl \cup {<<branch, Head(symbol_ids)>>}, branch,
                               Tail(symbol_ids))

\* clear_branch_symbols: DELETE FROM branch_symbols WHERE branch = ?
clear_branch_symbols(tbl, branch) == {p \in tbl : p[1] # branch}

\* the join without `AND bs.branch = ?`: membership in any branch counts
JoinedEdgesAnyBranch(edges, syms, bs, branch) ==
    {e \in edges : /\ \E x \in syms : x.id = e.from_symbol_id
                   /\ \E b \in Branches : <<b, e.from_symbol_id>> \in bs}

\* the rows of the join call_edges x symbols x branch_symbols for one branch
JoinedEdges(edges, syms, bs, branch) ==
    {e \in edges : /\ \E x \in syms : x.id = e.from_symbol_id
                   /\ <<branch, e.from_symbol_id>> \in bs}

\* get_callers: ... WHERE ce.target_name = ?, rows in any order
get_callers(edges, syms, bs, symbol_name, branch) ==
    {[i \in DOMAIN o |-> EdgeFromSql(o[i])] :
        o \in Orders({e \in JoinedEdges(edges, syms, bs, branch) :
                        e.target_name = symbol_name})}

\* get_callees: ... WHERE ce.from_symbol_id = ?, rows in any order
get_callees(edges, syms, bs, symbol_id, branch) ==
    {[i \in DOMAIN o |-> EdgeFromSql(o[i])] :
        o \in Orders({e \in JoinedEdges(edges, syms, bs, branch) :
                        e.from_symbol_id = symbol_id})}

\* gc_orphan_symbols: two statements, each committed on its own.
\*   1. DELETE FROM call_edges WHERE from_symbol_id NOT IN
\*      (SELECT DISTINCT symbol_id FROM branch_symbols)
\*   2. DELETE FROM symbols WHERE id NOT IN (the same subquery)
gc_orphan_symbols(syms, edges, bs, fk) ==
    LET on_branch == {p[2] : p \in bs}
        edges1 == {e \in edges : e.from_symbol_id \in on_branch}
        victims == {x \in syms : x.id \notin on_branch}
    IN IF fk /\ \E e \in edges1 : e.from_symbol_id \in {x.id : x \in victims}
       THEN [ok |-> FALSE, call_edges |-> edges1, symbols |-> syms, count |-> 0]
       ELSE [ok |-> TRUE, call_edges |-> edges1, symbols |-> syms \ victims,
             count |-> Cardinality(victims)]

\* the sweep with the subquery selecting symbol names instead of ids
gc_orphan_call_edges_by_name(edges, syms) ==
    LET victims == {e \in edges : e.from_symbol_id \notin {x.name : x \in syms}}
    IN [call_edges |-> edges \ victims, count |-> Cardinality(victims)]

\* gc_orphan_call_edges: DELETE FROM call_edges WHERE from_symbol_id NOT IN
\* (SELECT DISTINCT id FROM symbols)
gc_orphan_call_edges(edges, syms) ==
    LET victims == {e \in edges : e.from_symbol_id \notin {x.id : x \in syms}}
    IN [call_edges |-> edges \ victims, count |-> Cardinality(victims)]

(***************************************************************************)
(* Catalog: symbol-side operations                                         *)
(***************************************************************************)
chunk_tables == <<embeddings, chunks, branch_chunks>>

DbUpsertSymbol ==
    /\ UNCHANGED not_db_vars
    /\ \E r \in SymbolRows :
        /\ symbols' = upsert_symbol(symbols, r)
        /\ db_ret' = [op |-> "upsert_symbol", ok |-> TRUE, value |-> r]
    /\ UNCHANGED <<foreign_keys, chunk_tables, call_edges, branch_symbols>>

DbGetSymbolsByFile ==
    /\ UNCHANGED not_db_vars
    /\ \E file_path \in FilePaths :
        \E rows \in get_symbols_by_file(symbols, file_path) :
            db_ret' = [op |-> "get_symbols_by_file", ok |-> TRUE, value |-> rows]
    /\ UNCHANGED <<foreign_keys, db_tables>>

DbDeleteSymbolsByFile ==
    /\ UNCHANGED not_db_vars
    /\ \E file_path \in FilePaths :
        LET r == delete_symbols_by_file(symbols, call_edges, foreign_keys, file_path)
        IN /\ symbols' = r.symbols
           /\ db_ret' = [op |-> "delete_symbols_by_file", ok |-> r.ok,
                         value |-> r.count, file_path |-> file_path,
                         edges_deleted |->
                             IF db_ret.op = "delete_call_edges_by_file"
                                /\ db_ret.file_path = file_path
                             THEN db_ret.value ELSE 0]
    /\ UNCHANGED <<foreign_keys, chunk_tables, call_edges, branch_symbols>>

DbUpsertCallEdge ==
    /\ UNCHANGED not_db_vars
    /\ \E e \in CallEdgeRows :
        LET r == upsert_call_edge(call_edges, symbols, foreign_keys, e)
        IN /\ call_edges' = r.call_edges
           /\ db_ret' = [op |-> "upsert_call_edge", ok |-> r.ok, value |-> e]
    /\ UNCHANGED <<foreign_keys, chunk_tables, symbols, branch_symbols>>

DbGetCallers ==
    /\ UNCHANGED not_db_vars
    /\ \E symbol_name \in {"foo", "bar"}, branch \in Branches :
        \E rows \in get_callers(call_edges, symbols, branch_symbols, symbol_name,
                                 branch) :
            db_ret' = [op |-> "get_callers", ok |-> TRUE, value |-> rows,
                       args |-> <<symbol_name, branch>>]
    /\ UNCHANGED <<foreign_keys, db_tables>>

DbGetCallees ==
    /\ UNCHANGED not_db_vars
    /\ \E symbol_id \in SymbolIds, branch \in Branches :
        \E rows \in get_callees(call_edges, symbols, branch_symbols, symbol_id,
                                 branch) :
            db_ret' = [op |-> "get_callees", ok |-> TRUE, value |-> rows,
                       args |-> <<symbol_id, branch>>]
    /\ UNCHANGED <<foreign_keys, db_tables>>

DbDeleteCallEdgesByFile ==
    /\ UNCHANGED not_db_vars
    /\ \E file_path \in FilePaths :
        LET r == delete_call_edges_by_file(call_edges, symbols, file_path)
        IN /\ call_edges' = r.call_edges
           /\ db_ret' = [op |-> "delete_call_edges_by_file", ok |-> TRUE,
                         value |-> r.count, file_path |-> file_path]
    /\ UNCHANGED <<foreign_keys, chunk_tables, symbols, branch_symbols>>

DbResolveCallEdge ==
    /\ UNCHANGED not_db_vars
    /\ \E edge_id \in EdgeIds, to_symbol_id \in ResolveTargets :
        /\ call_edges' = resolve_call_edge(call_edges, edge_id, to_symbol_id)
        /\ db_ret' = [op |-> "resolve_call_edge", ok |-> TRUE, value |-> TRUE,
                      args |-> <<edge_id, to_symbol_id>>,
                      changed |-> call_edges' # call_edges]
    /\ UNCHANGED <<foreign_keys, chunk_tables, symbols, branch_symbols>>

\* add_symbols_to_branch: one autocommitted statement per id, fail_at as in
\* DbAddChunksToBranch
DbAddSymbolsToBranch ==
    /\ UNCHANGED not_db_vars
    /\ \E branch \in Branches, symbol_ids \in SeqsUpTo(SymbolIds, MaxIdList) :
        \E fail_at \in 0..Len(symbol_ids) :
            /\ branch_symbols' =
                  IF fail_at = 0
                  THEN add_symbols_to_branch(branch_symbols, branch, symbol_ids)
                  ELSE add_symbols_to_branch(branch_symbols, branch,
                                             SubSeq(symbol_ids, 1, fail_at - 1))
            /\ db_ret' = [op |-> "add_symbols_to_branch", ok |-> fail_at = 0,
                          value |-> TRUE,
                          readded |-> /\ symbol_ids # <<>>
                                      /\ \A i \in 1..Len(symbol_ids) :
                                            <<branch, symbol_ids[i]>> \in branch_symbols]
    /\ UNCHANGED <<foreign_keys, chunk_tables, symbols, call_edges>>

DbClearBranchSymbols ==
    /\ UNCHANGED not_db_vars
    /\ \E branch \in Branches :
        /\ branch_symbols' = clear_branch_symbols(branch_symbols, branch)
        /\ db_ret' = [op |-> "clear_branch_symbols", ok |-> TRUE,
                      value |-> Cardinality(branch_symbols \ branch_symbols')]
    /\ UNCHANGED <<foreign_keys, chunk_tables, symbols, call_edges>>

\* gc_orphan_symbols.  fail_at = 1 or 2: SQLite rejects the first or the second
\* DELETE for a reason outside the catalog; each statement commits on its own.
DbGcOrphanSymbols ==
    /\ UNCHANGED not_db_vars
    /\ \E fail_at \in 0..2 :
        LET r == gc_orphan_symbols(symbols, call_edges, branch_symbols, foreign_keys)
        IN /\ call_edges' = IF fail_at = 1 THEN call_edges ELSE r.call_edges
           /\ symbols' = IF fail_at = 0 THEN r.symbols ELSE symbols
           /\ db_ret' = [op |-> "gc_orphan_symbols", ok |-> (fail_at = 0 /\ r.ok),
                         value |-> IF fail_at = 0 THEN r.count ELSE 0]
    /\ UNCHANGED <<foreign_keys, chunk_tables, branch_symbols>>

DbGcOrphanCallEdges ==
    /\ UNCHANGED not_db_vars
    /\ LET r == gc_orphan_call_edges(call_edges, symbols)
       IN /\ call_edges' = r.call_edges
          /\ db_ret' = [op |-> "gc_orphan_call_edges", ok |-> TRUE,
                        value |-> r.count]
    /\ UNCHANGED <<foreign_keys, chunk_tables, symbols, branch_symbols>>

NextSymbols ==
    \/ DbUpsertSymbol
    \/ DbGetSymbolsByFile
    \/ DbDeleteSymbolsByFile
    \/ DbUpsertCallEdge
    \/ DbGetCallers
    \/ DbGetCallees
    \/ DbDeleteCallEdgesByFile
    \/ DbResolveCallEdge
    \/ DbAddSymbolsToBranch
    \/ DbClearBranchSymbols
    \/ DbGcOrphanSymbols
    \/ DbGcOrphanCallEdges

\* writing one row of each kind and reading it back
NextRows ==
    \/ DbUpsertChunk
    \/ DbGetChunk
    \/ DbUpsertSymbol
    \/ DbUpsertCallEdge
    \/ DbAddSymbolsToBranch

(***************************************************************************)
(* Parser: texts, files and chunks                                         *)
(*                                                                         *)
(* A text is the sequence of the byte lengths of its segments between      *)
(* line feeds: "ab\ncde" is <<2, 3>>, "ab\n" is <<2, 0>>, "" is <<0>>.      *)
(* Texts hold no carriage returns.  Rows and columns count from 0 as       *)
(* tree-sitter does; line numbers count from 1.                            *)
(***************************************************************************)
MIN_CHUNK_SIZE == 50

MAX_CHUNK_SIZE == 2000

TARGET_CHUNK_SIZE == 500

OVERLAP_LINES == 3

\* the divisor in `TARGET_CHUNK_SIZE / 40`
SPLIT_BYTES_PER_LINE == 40

\* lines_per_chunk of chunk_by_lines
FALLBACK_LINES_PER_CHUNK == 30

\* str::len
ByteLen(text) == SumSeq(text) + Len(text) - 1

\* str::lines: the segments, without a final empty one
Lines(text) ==
    IF text[Len(text)] = 0 THEN SubSeq(text, 1, Len(text) - 1) ELSE text

\* [&str]::join("\n")
JoinLines(ls) == IF ls = <<>> THEN <<0>> ELSE ls

\* source[start_byte..end_byte] for byte offsets given as (row, column)
Slice(source, sr, sc, er, ec) ==
    IF sr = er THEN <<ec - sc>>
    ELSE <<source[sr + 1] - sc>> \o SubSeq(source, sr + 2, er) \o <<ec>>

\* byte length of a leading comment line
CommentLen == 20

NoComment == -1

NodeLineCounts == {1, 2, 13, 22}

LineLens == {10, 60, 170, 1940, 2100}

Repeat(n, l) == [i \in 1..n |-> l]

\* a file whose tree has one semantic node, of n1 lines of l1 bytes
OneNodeFile(n1, l1) ==
    [known |-> TRUE,
     source |-> Repeat(n1, l1),
     nodes |-> <<[start_row |-> 0, start_col |-> 0, end_row |-> n1 - 1,
                  end_col |-> l1, comment_row |-> NoComment]>>]

\* a file whose tree has two semantic nodes in document order.  The second
\* starts on the row where the first ends (sep = 0, after one space), on the
\* next row (sep = 1) or after a blank row (sep = 2); it may have a leading
\* comment on the row before it (c2 = 1) and may end with the line feed of
\* its last line (trail = 1).
TwoNodeFile(n1, l1, sep, c2, n2, l2, trail) ==
    LET first == Repeat(n1, l1)
        between == (IF sep = 2 THEN <<0>> ELSE <<>>)
                       \o (IF c2 = 1 THEN <<CommentLen>> ELSE <<>>)
        start_row == IF sep = 0 THEN n1 - 1 ELSE n1 + Len(between)
        start_col == IF sep = 0 THEN l1 + 1 ELSE 0
        last_row == start_row + n2 - 1
        last_col == IF n2 = 1 THEN start_col + l2 ELSE l2
        body == IF sep = 0
                THEN SubSeq(first, 1, n1 - 1) \o <<l1 + 1 + l2>> \o Repeat(n2 - 1, l2)
                ELSE first \o between \o Repeat(n2, l2)
    IN [known |-> TRUE,
        source |-> IF trail = 1 THEN body \o <<0>> ELSE body,
        nodes |-> <<[start_row |-> 0, start_col |-> 0, end_row |-> n1 - 1,
                     end_col |-> l1, comment_row |-> NoComment],
                    [start_row |-> start_row, start_col |-> start_col,
                     end_row |-> IF trail = 1 THEN last_row + 1 ELSE last_row,
                     end_col |-> IF trail = 1 THEN 0 ELSE last_col,
                     comment_row |-> IF c2 = 1 THEN start_row - 1 ELSE NoComment]>>]

\* a file without semantic nodes, in a language with a grammar or without
PlainFile(n, l, known) == [known |-> known, source |-> Repeat(n, l), nodes |-> <<>>]

PlainLineCounts == {1, 2, 30, 31, 58}

PlainLineLens == {0, 1, 60, 2100}

Files ==
    {OneNodeFile(n1, l1) : n1 \in NodeLineCounts, l1 \in LineLens}
    \cup {TwoNodeFile(n1, l1, q[1], q[2], n2, l2, trail) :
            n1 \in NodeLineCounts, l1 \in LineLens,
            q \in {<<0, 0>>, <<1, 0>>, <<1, 1>>, <<2, 0>>, <<2, 1>>},
            n2 \in NodeLineCounts, l2 \in LineLens, trail \in {0, 1}}
    \cup {PlainFile(n, l, k) : n \in PlainLineCounts, l \in PlainLineLens,
                               k \in BOOLEAN}

(***************************************************************************)
(* Parser: chunking                                                        *)
(*                                                                         *)
(* A chunk is [content, start_line, end_line, chunk_type]; the field       *)
(* origin records which path emitted it.                                   *)
(***************************************************************************)
\* a step of a whole window: consecutive windows share no line
StepSizeWholeWindow(lines_per_chunk) == lines_per_chunk

StepSize(lines_per_chunk) ==
    IF lines_per_chunk > OVERLAP_LINES THEN lines_per_chunk - OVERLAP_LINES
    ELSE lines_per_chunk

\* sub-chunk line numbers counted from the window's start for both ends
SubChunkLinesFromStart(chunk, start, end) ==
    [start_line |-> chunk.start_line + end, end_line |-> chunk.start_line + start - 1]

\* start_line / end_line of the sub-chunk for lines[start..end]
SubChunkLines(chunk, start, end) ==
    [start_line |-> chunk.start_line + start, end_line |-> chunk.start_line + end - 1]

\* the while loop of split_large_chunk, from `start` on
RECURSIVE SplitLoop(_, _, _, _)
SplitLoop(lines, start, chunk, out) ==
    LET total_lines == Len(lines)
        lines_per_chunk == TARGET_CHUNK_SIZE \div SPLIT_BYTES_PER_LINE
        end == Min2(start + lines_per_chunk, total_lines)
        sub_content == JoinLines(SubSeq(lines, start + 1, end))
        pushed == IF ByteLen(sub_content) >= MIN_CHUNK_SIZE
                  THEN Append(out,
                              [content |-> sub_content,
                               start_line |-> SubChunkLines(chunk, start, end).start_line,
                               end_line |-> SubChunkLines(chunk, start, end).end_line,
                               chunk_type |-> chunk.chunk_type,
                               origin |-> "split"])
                  ELSE out
    IN IF start >= total_lines THEN out
       ELSE IF end >= total_lines THEN pushed
       ELSE SplitLoop(lines, start + StepSize(lines_per_chunk), chunk, pushed)

split_large_chunk(chunk, out) ==
    LET lines == Lines(chunk.content)
    IN IF Len(lines) <= 1 THEN Append(out, chunk)
       ELSE SplitLoop(lines, 0, chunk, out)

\* a merge loop that does not look at the line numbers of the two chunks
RECURSIVE MergeLoopAnyGap(_, _, _)
MergeLoopAnyGap(rest, cur, merged) ==
    IF rest = <<>> THEN Append(merged, cur)
    ELSE LET chunk == Head(rest)
         IN IF /\ ByteLen(cur.content) < MIN_CHUNK_SIZE * 2
               /\ ByteLen(cur.content) + ByteLen(chunk.content) <= MAX_CHUNK_SIZE
            THEN MergeLoopAnyGap(Tail(rest),
                           [cur EXCEPT !.content = cur.content \o <<0>> \o chunk.content,
                                       !.end_line = chunk.end_line,
                                       !.origin = "merged"],
                           merged)
            ELSE MergeLoopAnyGap(Tail(rest), chunk, Append(merged, cur))

\* the for loop of merge_small_chunks over the chunks not yet drained
RECURSIVE MergeLoop(_, _, _)
MergeLoop(rest, cur, merged) ==
    IF rest = <<>> THEN Append(merged, cur)
    ELSE LET chunk == Head(rest)
         IN IF /\ ByteLen(cur.content) < MIN_CHUNK_SIZE * 2
               /\ ByteLen(cur.content) + ByteLen(chunk.content) <= MAX_CHUNK_SIZE
               /\ cur.end_line + 1 >= chunk.start_line
            THEN MergeLoop(Tail(rest),
                           [cur EXCEPT !.content = cur.content \o <<0>> \o chunk.content,
                                       !.end_line = chunk.end_line,
                                       !.origin = "merged"],
                           merged)
            ELSE MergeLoop(Tail(rest), chunk, Append(merged, cur))

merge_small_chunks(out) ==
    IF Len(out) < 2 THEN out
    ELSE MergeLoop(Tail(out), Head(out), <<>>)

\* the while loop of chunk_by_lines, from `start` on
RECURSIVE LinesLoop(_, _, _)
LinesLoop(lines, start, out) ==
    LET total_lines == Len(lines)
        end == Min2(start + FALLBACK_LINES_PER_CHUNK, total_lines)
        sub_content == JoinLines(SubSeq(lines, start + 1, end))
        pushed == IF ByteLen(sub_content) >= MIN_CHUNK_SIZE
                  THEN Append(out,
                              [content |-> sub_content, start_line |-> start + 1,
                               end_line |-> end, chunk_type |-> "block",
                               origin |-> "lines"])
                  ELSE out
    IN IF start >= total_lines THEN out
       ELSE IF end >= total_lines THEN pushed
       ELSE LinesLoop(lines, start + StepSize(FALLBACK_LINES_PER_CHUNK), pushed)

chunk_by_lines(content) ==
    IF Len(Lines(content)) = 0 THEN <<>>
    ELSE LinesLoop(Lines(content), 0, <<>>)

\* one iteration of the loop of extract_semantic_nodes on a semantic node
extract_semantic_node(source, node, out) ==
    LET has_comment == node.comment_row # NoComment
        start_row == IF has_comment THEN node.comment_row ELSE node.start_row
        start_col == IF has_comment THEN 0 ELSE node.start_col
        content == Slice(source, start_row, start_col, node.end_row, node.end_col)
        chunk == [content |-> content,
                  start_line |-> start_row + 1,
                  end_line |-> node.end_row + 1,
                  chunk_type |-> "semantic",
                  origin |-> "node"]
    IN IF ByteLen(content) >= MIN_CHUNK_SIZE
       THEN IF ByteLen(content) <= MAX_CHUNK_SIZE THEN Append(out, chunk)
            ELSE split_large_chunk(chunk, out)
       ELSE out

(***************************************************************************)
(* Parser: the steps of parse_file_internal                                *)
(***************************************************************************)
\* parse_file_internal up to the call of extract_chunks
ParseFileInternal ==
    /\ UNCHANGED not_p_vars
    /\ p_pc = "start"
    /\ IF p_file.known
       THEN p_pc' = "walk" /\ UNCHANGED p_chunks
       ELSE p_pc' = "done" /\ p_chunks' = chunk_by_lines(p_file.source)
    /\ UNCHANGED <<p_file, p_cursor>>

\* extract_semantic_nodes reaches the next semantic node
ExtractSemanticNode ==
    /\ UNCHANGED not_p_vars
    /\ p_pc = "walk"
    /\ p_cursor < Len(p_file.nodes)
    /\ p_cursor' = p_cursor + 1
    /\ p_chunks' = extract_semantic_node(p_file.source, p_file.nodes[p_cursor + 1],
                                         p_chunks)
    /\ UNCHANGED <<p_file, p_pc>>

\* extract_chunks after the walk
ExtractChunks ==
    /\ UNCHANGED not_p_vars
    /\ p_pc = "walk"
    /\ p_cursor = Len(p_file.nodes)
    /\ p_chunks' = IF p_chunks = <<>> THEN chunk_by_lines(p_file.source)
                   ELSE merge_small_chunks(p_chunks)
    /\ p_pc' = "done"
    /\ UNCHANGED <<p_file, p_cursor>>

ParserIdle ==
    /\ p_file = PlainFile(1, 0, FALSE)
    /\ p_pc = "idle"
    /\ p_cursor = 0
    /\ p_chunks = <<>>

InitParser ==
    /\ p_file \in Files
    /\ p_pc = "start"
    /\ p_cursor = 0
    /\ p_chunks = <<>>

NextParser ==
    \/ ParseFileInternal
    \/ ExtractSemanticNode
    \/ ExtractChunks

(***************************************************************************)
(* Vector store                                                            *)
(*                                                                         *)
(* The usearch index is a map from integer id to vector (multi: false, so  *)
(* index.add of an id it already holds fails).  index.add may also fail    *)
(* for reasons outside the store; index.remove and reserve succeed.        *)
(***************************************************************************)
\* the `dimensions` the store was constructed with
Dimensions == 2

\* next_id stays below this in the model
MaxNextId == 4

\* longest batch passed to add_batch
MaxBatch == 2

Keys == {"a", "b"}

\* a vector of the store's dimension
ValidVector == [i \in 1..Dimensions |-> IF i = 1 THEN 1 ELSE 0]

\* a vector one component short
ShortVector == [i \in 1..(Dimensions - 1) |-> 1]

Vectors == {ValidVector, ShortVector}

Metas == {"m1"}

\* HashMap::insert
MapInsert(f, k, v) == [x \in DOMAIN f \cup {k} |-> IF x = k THEN v ELSE f[x]]

\* HashMap::remove
MapRemove(f, k) == [x \in DOMAIN f \ {k} |-> f[x]]

\* StoredMetadata::default
StoredDefault ==
    [id_to_key |-> EmptyMap, key_to_id |-> EmptyMap, metadata |-> EmptyMap,
     next_id |-> 0]

\* VectorStoreInner::count
count(st) == Cardinality(DOMAIN st.key_to_id)

\* VectorStoreInner::add.  add_ok: whether index.add succeeds when the id is new.
add(idx, st, key, vector, metadata, add_ok) ==
    IF Len(vector) # Dimensions
    THEN [ok |-> FALSE, index |-> idx, stored |-> st, handed |-> {}]
    ELSE LET existing == key \in DOMAIN st.key_to_id
             idx1 == IF existing THEN MapRemove(idx, st.key_to_id[key]) ELSE idx
             st1 == IF existing
                    THEN [st EXCEPT !.id_to_key = MapRemove(@, st.key_to_id[key])]
                    ELSE st
             id == st1.next_id
             st2 == [st1 EXCEPT !.next_id = @ + 1]
         IN IF add_ok /\ id \notin DOMAIN idx1
            THEN [ok |-> TRUE,
                  index |-> MapInsert(idx1, id, vector),
                  stored |-> [st2 EXCEPT !.id_to_key = MapInsert(@, id, key),
                                         !.key_to_id = MapInsert(@, key, id),
                                         !.metadata = MapInsert(@, key, metadata)],
                  handed |-> {id}]
            ELSE [ok |-> FALSE, index |-> idx1, stored |-> st2, handed |-> {id}]

\* the loop `for id in existing_ids` of add_batch
RECURSIVE RemoveExisting(_, _, _)
RemoveExisting(idx, st, existing_ids) ==
    IF existing_ids = <<>> THEN [index |-> idx, stored |-> st]
    ELSE LET id == Head(existing_ids)
             st1 == IF id \in DOMAIN st.id_to_key
                    THEN [st EXCEPT !.id_to_key = MapRemove(@, id),
                                    !.key_to_id = MapRemove(@, st.id_to_key[id])]
                    ELSE st
         IN RemoveExisting(MapRemove(idx, id), st1, Tail(existing_ids))

\* keys.iter().filter_map(|key| key_to_id.get(key).copied()).collect()
RECURSIVE ExistingIds(_, _)
ExistingIds(st, keys) ==
    IF keys = <<>> THEN <<>>
    ELSE (IF Head(keys) \in DOMAIN st.key_to_id
          THEN <<st.key_to_id[Head(keys)]>> ELSE <<>>)
         \o ExistingIds(st, Tail(keys))

\* the loop `for (i, key) in keys.iter().enumerate()` of add_batch, from the
\* i-th key on (i counts from 1)
RECURSIVE RecordBatch(_, _, _, _, _)
RecordBatch(st, keys, metadata, start_id, i) ==
    IF i > Len(keys) THEN st
    ELSE RecordBatch(
             [st EXCEPT !.id_to_key = MapInsert(@, start_id + i - 1, keys[i]),
                        !.key_to_id = MapInsert(@, keys[i], start_id + i - 1),
                        !.metadata = MapInsert(@, keys[i], metadata[i])],
             keys, metadata, start_id, i + 1)

\* ids.par_iter().zip(vectors.par_iter()).for_each(..): the workers run the
\* closure on the positions of the batch in some order; index.add fails for
\* the positions in failing and for an id the index already holds
RECURSIVE ParallelAdd(_, _, _, _, _)
ParallelAdd(acc, ids, vectors, failing, order) ==
    IF order = <<>> THEN acc
    ELSE LET i == Head(order)
             is_err == i \in failing \/ ids[i] \in DOMAIN acc.index
         IN ParallelAdd(
                [index |-> IF is_err THEN acc.index
                           ELSE MapInsert(acc.index, ids[i], vectors[i]),
                 failure_count |-> acc.failure_count + (IF is_err THEN 1 ELSE 0)],
                ids, vectors, failing, Tail(order))

\* VectorStoreInner::add_batch.  failing: the positions of the batch whose
\* index.add fails for reasons outside the store; order: the order in which
\* the workers reach the positions.
add_batch(idx, st, keys, vectors, metadata, failing, order) ==
    LET unchanged == [ok |-> FALSE, index |-> idx, stored |-> st, handed |-> {}]
        batch_size == Len(keys)
    IN IF Len(keys) # Len(vectors) \/ Len(keys) # Len(metadata) THEN unchanged
       ELSE IF batch_size = 0 THEN [unchanged EXCEPT !.ok = TRUE]
       ELSE IF \E i \in DOMAIN vectors : Len(vectors[i]) # Dimensions THEN unchanged
       ELSE LET r == RemoveExisting(idx, st, ExistingIds(st, keys))
                start_id == r.stored.next_id
                ids == [i \in 1..batch_size |-> start_id + i - 1]
                added == ParallelAdd([index |-> r.index, failure_count |-> 0],
                                     ids, vectors, failing, order)
            IN IF added.failure_count > 0
               THEN [ok |-> FALSE, index |-> added.index, stored |-> r.stored,
                     handed |-> Range(ids)]
               ELSE [ok |-> TRUE, index |-> added.index,
                     stored |-> [RecordBatch(r.stored, keys, metadata, start_id, 1)
                                    EXCEPT !.next_id = start_id + batch_size],
                     handed |-> Range(ids)]

\* VectorStoreInner::remove
remove(idx, st, key) ==
    IF key \in DOMAIN st.key_to_id
    THEN [ret |-> TRUE,
          index |-> MapRemove(idx, st.key_to_id[key]),
          stored |-> [st EXCEPT !.id_to_key = MapRemove(@, st.key_to_id[key]),
                                !.key_to_id = MapRemove(@, key),
                                !.metadata = MapRemove(@, key)]]
    ELSE [ret |-> FALSE, index |-> idx, stored |-> st]

DecimalDigits == <<"0", "1", "2", "3", "4", "5", "6", "7", "8", "9">>

\* how serde_json writes a u64 map key: its decimal digits as a JSON string
U64ToString(n) ==
    IF n < 10 THEN DecimalDigits[n + 1]
    ELSE DecimalDigits[(n \div 10) + 1] \o DecimalDigits[(n % 10) + 1]

\* how serde_json reads a u64 map key back
U64FromString(str) == CHOOSE n \in 0..99 : U64ToString(n) = str

\* serde_json::to_string(&self.stored): id_to_key becomes an object keyed by
\* decimal strings, written here as its set of members
ToJson(st) ==
    [id_to_key |-> {<<U64ToString(i), st.id_to_key[i]>> : i \in DOMAIN st.id_to_key},
     key_to_id |-> st.key_to_id,
     metadata |-> st.metadata,
     next_id |-> st.next_id]

\* serde_json::from_str::<StoredMetadata>
FromJson(json) ==
    [id_to_key |-> [i \in {U64FromString(mem[1]) : mem \in json.id_to_key} |->
                       (CHOOSE mem \in json.id_to_key : U64FromString(mem[1]) = i)[2]],
     key_to_id |-> json.key_to_id,
     metadata |-> json.metadata,
     next_id |-> json.next_id]

\* VectorStoreInner::save: the index file and meta.json
save(idx, st) == [index |-> idx, meta_json |-> ToJson(st)]

\* a load that reads the index file and leaves the maps in memory as they are
load_index_only(idx, st, files) ==
    IF files = NoFile THEN [index |-> idx, stored |-> st]
    ELSE [index |-> files.index, stored |-> st]

\* VectorStoreInner::load
load(idx, st, files) ==
    IF files = NoFile THEN [index |-> idx, stored |-> st]
    ELSE [index |-> files.index, stored |-> FromJson(files.meta_json)]

\* a dimension check that lets every query through
WrongDimensionNever(vector) == FALSE

\* `query_vector.len() != self.dimensions`
WrongDimension(vector) == Len(vector) # Dimensions

\* index.search(query, limit): the ids of min(limit, size) vectors of the
\* index, nearest first; vectors at the same distance come in any order
UsearchSearch(idx, limit) ==
    {o \in UNION {Orders(S) : S \in SUBSET DOMAIN idx} :
        Len(o) = Min2(limit, Cardinality(DOMAIN idx))}

\* the loop of search over results.keys: ids without an id_to_key entry are
\* skipped, a key without metadata gets the empty string
RECURSIVE SearchResults(_, _)
SearchResults(st, ids) ==
    IF ids = <<>> THEN <<>>
    ELSE (IF Head(ids) \in DOMAIN st.id_to_key
          THEN LET key == st.id_to_key[Head(ids)]
               IN <<[id |-> key,
                     metadata |-> IF key \in DOMAIN st.metadata
                                  THEN st.metadata[key] ELSE ""]>>
          ELSE <<>>)
         \o SearchResults(st, Tail(ids))

\* VectorStoreInner::search: every outcome the call can have
vs_search(idx, st, query_vector, limit) ==
    IF WrongDimension(query_vector) THEN {[ok |-> FALSE, results |-> <<>>]}
    ELSE {[ok |-> TRUE, results |-> SearchResults(st, ids)] :
            ids \in UsearchSearch(idx, limit)}

(***************************************************************************)
(* Vector store: operations                                                *)
(***************************************************************************)
\* the (keys, vectors, metadata) triples passed to add_batch: vectors of the
\* right dimension, one vector of the wrong one, and one vector too many
BatchInputs ==
    UNION {{[keys |-> keys, vectors |-> [i \in DOMAIN keys |-> ValidVector],
             metadata |-> [i \in DOMAIN keys |-> "m1"]],
            [keys |-> keys, vectors |-> [i \in 1..(Len(keys) + 1) |-> ValidVector],
             metadata |-> [i \in DOMAIN keys |-> "m1"]]}
           \cup {[keys |-> keys,
                  vectors |-> [i \in DOMAIN keys |->
                                  IF i = p THEN ShortVector ELSE ValidVector],
                  metadata |-> [i \in DOMAIN keys |-> "m1"]] : p \in DOMAIN keys} :
           keys \in SeqsUpTo(Keys, MaxBatch)}

\* the `limit` values passed to search
Limits == {0, 1, 2}

\* VectorStoreInner::new on a path without files
StoreFresh ==
    /\ vs_index = EmptyMap
    /\ stored = StoredDefault
    /\ vs_files = NoFile
    /\ vs_handed = {}
    /\ vs_failed = FALSE
    /\ vs_ret = [op |-> "new", ok |-> TRUE, handed |-> {}, after_save |-> FALSE]

\* VectorStoreInner::new on the same path (a restart): loads what was saved
StoreNew ==
    /\ UNCHANGED not_vs_vars
    /\ LET r == load(EmptyMap, StoredDefault, vs_files)
       IN /\ vs_index' = r.index
          /\ stored' = r.stored
    /\ vs_ret' = [op |-> "new", ok |-> TRUE, handed |-> {},
                  after_save |-> vs_ret.op = "save"]
    /\ UNCHANGED <<vs_files, vs_handed, vs_failed>>

StoreAdd ==
    /\ UNCHANGED not_vs_vars
    /\ stored.next_id < MaxNextId
    /\ \E key \in Keys, vector \in Vectors, metadata \in Metas, add_ok \in BOOLEAN :
        LET r == add(vs_index, stored, key, vector, metadata, add_ok)
        IN /\ vs_index' = r.index
           /\ stored' = r.stored
           /\ vs_handed' = vs_handed \cup r.handed
           /\ vs_failed' = (vs_failed \/ ~r.ok)
           /\ vs_ret' = [op |-> "add", ok |-> r.ok, handed |-> r.handed,
                         bad_dim |-> Len(vector) # Dimensions,
                         key |-> key, metadata |-> metadata]
    /\ UNCHANGED vs_files

\* the workers reach the positions of the batch from first to last
InOrder(b) == [i \in DOMAIN b.keys |-> i]

\* whether add_batch gets as far as the insertions with the batch b
ReachesInsertions(b) ==
    /\ Len(b.keys) = Len(b.vectors) /\ Len(b.keys) = Len(b.metadata)
    /\ \A i \in DOMAIN b.vectors : Len(b.vectors[i]) = Dimensions

\* the positions at which index.add can fail, and the orders in which the
\* workers can reach the positions; neither matters to a call that returns
\* before the insertions
FailingPositions(b) == IF ReachesInsertions(b) THEN SUBSET DOMAIN b.keys ELSE {{}}

WorkerOrders(b) == IF ReachesInsertions(b) THEN Orders(DOMAIN b.keys) ELSE {InOrder(b)}

StoreAddBatch ==
    /\ UNCHANGED not_vs_vars
    /\ \E b \in BatchInputs :
       \E failing \in FailingPositions(b), order \in WorkerOrders(b) :
        LET r == add_batch(vs_index, stored, b.keys, b.vectors, b.metadata, failing,
                           order)
        IN /\ stored.next_id + Len(b.keys) <= MaxNextId
           /\ vs_index' = r.index
           /\ stored' = r.stored
           /\ vs_handed' = vs_handed \cup r.handed
           /\ vs_failed' = (vs_failed \/ ~r.ok)
           /\ vs_ret' = [op |-> "add_batch", ok |-> r.ok, handed |-> r.handed,
                         bad_dim |-> \E i \in DOMAIN b.vectors :
                                        Len(b.vectors[i]) # Dimensions,
                         existing |-> \E i \in DOMAIN b.keys :
                                         b.keys[i] \in DOMAIN stored.key_to_id]
    /\ UNCHANGED vs_files

StoreRemove ==
    /\ UNCHANGED not_vs_vars
    /\ \E key \in Keys :
        LET r == remove(vs_index, stored, key)
        IN /\ vs_index' = r.index
           /\ stored' = r.stored
           /\ vs_ret' = [op |-> "remove", ok |-> TRUE, handed |-> {},
                         key |-> key, value |-> r.ret]
    /\ UNCHANGED <<vs_files, vs_handed, vs_failed>>

StoreSave ==
    /\ UNCHANGED not_vs_vars
    /\ vs_files' = save(vs_index, stored)
    /\ vs_ret' = [op |-> "save", ok |-> TRUE, handed |-> {}]
    /\ UNCHANGED <<vs_index, stored, vs_handed, vs_failed>>

StoreLoad ==
    /\ UNCHANGED not_vs_vars
    /\ LET r == load(vs_index, stored, vs_files)
       IN /\ vs_index' = r.index
          /\ stored' = r.stored
    /\ vs_ret' = [op |-> "load", ok |-> TRUE, handed |-> {}]
    /\ UNCHANGED <<vs_files, vs_handed, vs_failed>>

StoreSearch ==
    /\ UNCHANGED not_vs_vars
    /\ \E query_vector \in Vectors, limit \in Limits :
        \E r \in vs_search(vs_index, stored, query_vector, limit) :
            /\ vs_ret' = [op |-> "search", ok |-> r.ok, handed |-> {},
                          bad_dim |-> Len(query_vector) # Dimensions,
                          results |-> r.results, limit |-> limit]
            /\ vs_failed' = (vs_failed \/ ~r.ok)
    /\ UNCHANGED <<vs_index, stored, vs_files, vs_handed>>

\* VectorStoreInner::clear
StoreClear ==
    /\ UNCHANGED not_vs_vars
    /\ vs_index' = EmptyMap
    /\ stored' = StoredDefault
    /\ vs_files' = NoFile
    /\ vs_ret' = [op |-> "clear", ok |-> TRUE, handed |-> {}]
    /\ UNCHANGED <<vs_handed, vs_failed>>

NextStore ==
    \/ StoreNew
    \/ StoreAdd
    \/ StoreAddBatch
    \/ StoreRemove
    \/ StoreSearch
    \/ StoreSave
    \/ StoreLoad
    \/ StoreClear

(***************************************************************************)
(* Catalog: batch writes (one transaction per call)                        *)
(***************************************************************************)
\* the rows of a batch that are executed: all of them when nothing fails
\* (fail_at = 0), otherwise those before the failing step; step Len(rows) + 1
\* is tx.commit()
RowsBefore(rows, fail_at) ==
    IF fail_at = 0 THEN rows ELSE SubSeq(rows, 1, fail_at - 1)

\* `for row in rows { stmt.execute(row)?; }`: the table after the rows in order
ExecuteRows(stmt(_, _), tbl, rows) ==
    LET f[i \in 0..Len(rows)] == IF i = 0 THEN tbl ELSE stmt(f[i - 1], rows[i])
    IN f[Len(rows)]

\* a transaction that keeps what was written before the failing step
TransactionWithoutRollback(before, work, failed) ==
    [ok |-> failed = 0, table |-> work, failed |-> failed,
     partial |-> failed # 0 /\ work # before]

\* conn.transaction() ... tx.commit(): `work` is the table the statements of the
\* transaction produced; an early return through `?` drops tx, which rolls
\* back.  partial records that the failed transaction had written something.
Transaction(before, work, failed) ==
    [ok |-> failed = 0, table |-> IF failed = 0 THEN work ELSE before,
     failed |-> failed, partial |-> failed # 0 /\ work # before]

\* `if rows.is_empty() { return Ok(()); }`
EmptyBatch(tbl) == [ok |-> TRUE, table |-> tbl, failed |-> 0, partial |-> FALSE]

upsert_embeddings_batch(tbl, rows, now, fail_at) ==
    IF rows = <<>> THEN EmptyBatch(tbl)
    ELSE Transaction(tbl,
                     ExecuteRows(LAMBDA t, e : upsert_embedding(t, e, now), tbl,
                                 RowsBefore(rows, fail_at)),
                     fail_at)

upsert_chunks_batch(tbl, rows, fail_at) ==
    IF rows = <<>> THEN EmptyBatch(tbl)
    ELSE Transaction(tbl, ExecuteRows(upsert_chunk, tbl, RowsBefore(rows, fail_at)),
                     fail_at)

add_chunks_to_branch_batch(tbl, branch, chunk_ids, fail_at) ==
    IF chunk_ids = <<>> THEN EmptyBatch(tbl)
    ELSE Transaction(tbl,
                     add_chunks_to_branch(tbl, branch, RowsBefore(chunk_ids, fail_at)),
                     fail_at)

upsert_symbols_batch(tbl, rows, fail_at) ==
    IF rows = <<>> THEN EmptyBatch(tbl)
    ELSE Transaction(tbl, ExecuteRows(upsert_symbol, tbl, RowsBefore(rows, fail_at)),
                     fail_at)

\* upsert_call_edges_batch: besides a failure from outside, a row fails when
\* foreign keys are enforced and its from_symbol_id names no symbols row
upsert_call_edges_batch(edges, syms, fk, rows, fail_at) ==
    IF rows = <<>> THEN EmptyBatch(edges)
    ELSE LET rejected == {i \in 1..Len(rows) :
                             ~upsert_call_edge(edges, syms, fk, rows[i]).ok}
             first    == IF rejected = {} THEN 0
                         ELSE CHOOSE i \in rejected : \A j \in rejected : i <= j
             failed   == IF first # 0 /\ (fail_at = 0 \/ first < fail_at)
                         THEN first ELSE fail_at
         IN Transaction(edges,
                        ExecuteRows(LAMBDA t, e :
                                        upsert_call_edge(t, syms, fk, e).call_edges,
                                    edges, RowsBefore(rows, failed)),
                        failed)

add_symbols_to_branch_batch(tbl, branch, symbol_ids, fail_at) ==
    IF symbol_ids = <<>> THEN EmptyBatch(tbl)
    ELSE Transaction(tbl,
                     add_symbols_to_branch(tbl, branch, RowsBefore(symbol_ids, fail_at)),
                     fail_at)

\* the batches the model writes: the empty one, one with two keys, and one that
\* writes the same key twice
BatchesOf(a, b, c) == {<<>>, <<a, b>>, <<c, a>>}

EmbeddingBatches ==
    BatchesOf(CHOOSE e \in EmbeddingInputs : e.content_hash = "h1" /\ e.model = "m1",
              CHOOSE e \in EmbeddingInputs : e.content_hash = "h2" /\ e.model = "m2",
              CHOOSE e \in EmbeddingInputs : e.content_hash = "h1" /\ e.model = "m2")

ChunkBatches ==
    BatchesOf(CHOOSE r \in ChunkRows : r.chunk_id = "k1" /\ r.content_hash = "h1",
              CHOOSE r \in ChunkRows : r.chunk_id = "k2" /\ r.content_hash = "h2",
              CHOOSE r \in ChunkRows : r.chunk_id = "k1" /\ r.content_hash = "h2")

SymbolBatches ==
    BatchesOf(CHOOSE r \in SymbolRows : r.id = "s1" /\ r.name = "foo",
              CHOOSE r \in SymbolRows : r.id = "s2" /\ r.name = "bar",
              CHOOSE r \in SymbolRows : r.id = "s1" /\ r.name = "bar")

CallEdgeBatches ==
    BatchesOf(CHOOSE e \in CallEdgeRows :
                  e.id = "e1" /\ e.from_symbol_id = "s1" /\ e.target_name = "foo",
              CHOOSE e \in CallEdgeRows :
                  e.id = "e2" /\ e.from_symbol_id = "s2" /\ e.target_name = "bar",
              CHOOSE e \in CallEdgeRows :
                  e.id = "e1" /\ e.from_symbol_id = "s1" /\ e.target_name = "bar")

ChunkIdBatches == BatchesOf("k1", "k2", "k1")

SymbolIdBatches == BatchesOf("s1", "s2", "s1")

\* the branch the batch variants write to
BatchBranches == {"main"}

BatchRet(name, rows, r) ==
    [op |-> name, ok |-> r.ok, value |-> rows, failed |-> r.failed,
     partial |-> r.partial]

DbUpsertEmbeddingsBatch ==
    /\ UNCHANGED not_db_vars
    /\ \E rows \in EmbeddingBatches, now \in Times :
        \E fail_at \in 0..(Len(rows) + 1) :
            LET r == upsert_embeddings_batch(embeddings, rows, now, fail_at)
            IN /\ embeddings' = r.table
               /\ db_ret' = BatchRet("upsert_embeddings_batch", rows, r)
    /\ UNCHANGED <<foreign_keys, chunks, branch_chunks, symbol_tables>>

DbUpsertChunksBatch ==
    /\ UNCHANGED not_db_vars
    /\ \E rows \in ChunkBatches :
        \E fail_at \in 0..(Len(rows) + 1) :
            LET r == upsert_chunks_batch(chunks, rows, fail_at)
            IN /\ chunks' = r.table
               /\ db_ret' = BatchRet("upsert_chunks_batch", rows, r)
    /\ UNCHANGED <<foreign_keys, embeddings, branch_chunks, symbol_tables>>

DbAddChunksToBranchBatch ==
    /\ UNCHANGED not_db_vars
    /\ \E branch \in BatchBranches, chunk_ids \in ChunkIdBatches :
        \E fail_at \in 0..(Len(chunk_ids) + 1) :
            LET r == add_chunks_to_branch_batch(branch_chunks, branch, chunk_ids,
                                                fail_at)
            IN /\ branch_chunks' = r.table
               /\ db_ret' = BatchRet("add_chunks_to_branch_batch", chunk_ids, r)
    /\ UNCHANGED <<foreign_keys, embeddings, chunks, symbol_tables>>

DbUpsertSymbolsBatch ==
    /\ UNCHANGED not_db_vars
    /\ \E rows \in SymbolBatches :
        \E fail_at \in 0..(Len(rows) + 1) :
            LET r == upsert_symbols_batch(symbols, rows, fail_at)
            IN /\ symbols' = r.table
               /\ db_ret' = BatchRet("upsert_symbols_batch", rows, r)
    /\ UNCHANGED <<foreign_keys, chunk_tables, call_edges, branch_symbols>>

DbUpsertCallEdgesBatch ==
    /\ UNCHANGED not_db_vars
    /\ \E rows \in CallEdgeBatches :
        \E fail_at \in 0..(Len(rows) + 1) :
            LET r == upsert_call_edges_batch(call_edges, symbols, foreign_keys, rows,
                                             fail_at)
            IN /\ call_edges' = r.table
               /\ db_ret' = BatchRet("upsert_call_edges_batch", rows, r)
    /\ UNCHANGED <<foreign_keys, chunk_tables, symbols, branch_symbols>>

DbAddSymbolsToBranchBatch ==
    /\ UNCHANGED not_db_vars
    /\ \E branch \in BatchBranches, symbol_ids \in SymbolIdBatches :
        \E fail_at \in 0..(Len(symbol_ids) + 1) :
            LET r == add_symbols_to_branch_batch(branch_symbols, branch, symbol_ids,
                                                 fail_at)
            IN /\ branch_symbols' = r.table
               /\ db_ret' = BatchRet("add_symbols_to_branch_batch", symbol_ids, r)
    /\ UNCHANGED <<foreign_keys, chunk_tables, symbols, call_edges>>

BatchOps ==
    {"upsert_embeddings_batch", "upsert_chunks_batch", "add_chunks_to_branch_batch",
     "upsert_symbols_batch", "upsert_call_edges_batch", "add_symbols_to_branch_batch"}

\* branch membership
NextBranches ==
    \/ DbAddChunksToBranch
    \/ DbAddChunksToBranchBatch
    \/ DbGetBranchChunkIds
    \/ DbAddSymbolsToBranch
    \/ DbAddSymbolsToBranchBatch

\* writing embeddings one at a time and in batches
NextEmbeddings ==
    \/ DbUpsertEmbedding
    \/ DbUpsertEmbeddingsBatch

NextBatch ==
    \/ DbUpsertEmbeddingsBatch
    \/ DbUpsertChunksBatch
    \/ DbAddChunksToBranchBatch
    \/ DbUpsertSymbolsBatch
    \/ DbUpsertCallEdgesBatch
    \/ DbAddSymbolsToBranchBatch

(***************************************************************************)
(* Database handle: methods of one handle called from several threads      *)
(*                                                                         *)
(* Every method of `impl Database` starts with self.conn.lock() and keeps   *)
(* the guard until it returns.  The model runs two of them statement by    *)
(* statement: upsert_chunks_batch (a transaction, one step per row) and    *)
(* get_chunk.  Reads on the connection see the rows its open transaction   *)
(* has written.                                                            *)
(***************************************************************************)
Threads == {"t1", "t2"}

\* calls made on the handle in one behaviour
MaxCalls == 3

\* the method calls the threads make; fail_at as in DbUpsertChunksBatch
HandleCalls ==
    {[op |-> "upsert_chunks_batch", arg |-> rows, fail_at |-> f] :
        rows \in ChunkBatches \ {<<>>}, f \in {0, 2}}
    \cup {[op |-> "get_chunk", arg |-> k, fail_at |-> 0] : k \in DbChunkIds}

NoCall == [pc |-> "idle", call |-> [op |-> "none", arg |-> <<>>, fail_at |-> 0],
           at |-> 0, before |-> {}, result |-> [ok |-> TRUE, rows |-> {}]]

\* a lock that never makes a caller wait
MutexAlwaysFree(holder) == TRUE

\* std::sync::Mutex::lock returns once no other thread holds the guard
MutexFree(holder) == holder = NULL

\* the method is called: the thread is about to lock conn
HandleCall(t) ==
    /\ UNCHANGED <<not_h_vars, chunks, mutex, h_log>>
    /\ h_calls[t].pc = "idle"
    /\ Len(h_log) + Cardinality({u \in Threads : h_calls[u].pc # "idle"}) < MaxCalls
    /\ \E c \in HandleCalls :
        h_calls' = [h_calls EXCEPT ![t] = [NoCall EXCEPT !.pc = "lock", !.call = c]]

\* self.conn.lock()
HandleLock(t) ==
    /\ UNCHANGED <<not_h_vars, chunks, h_log>>
    /\ h_calls[t].pc = "lock"
    /\ MutexFree(mutex)
    /\ mutex' = t
    /\ h_calls' = [h_calls EXCEPT ![t].pc = "run", ![t].before = chunks]

\* the next statement of the method, run on the connection behind the guard
HandleExecute(t) ==
    /\ UNCHANGED <<not_h_vars, mutex, h_log>>
    /\ h_calls[t].pc = "run"
    /\ LET c == h_calls[t].call
           i == h_calls[t].at + 1
       IN IF c.op = "get_chunk"
          THEN /\ chunks' = chunks
               /\ h_calls' = [h_calls EXCEPT
                     ![t].pc = "return",
                     ![t].result = [ok |-> TRUE,
                                    rows |-> {x \in chunks : x.chunk_id = c.arg}]]
          ELSE IF c.fail_at = i
          THEN /\ chunks' = h_calls[t].before
               /\ h_calls' = [h_calls EXCEPT
                     ![t].pc = "return", ![t].result = [ok |-> FALSE, rows |-> {}]]
          ELSE IF i <= Len(c.arg)
          THEN /\ chunks' = upsert_chunk(chunks, c.arg[i])
               /\ h_calls' = [h_calls EXCEPT ![t].at = i]
          ELSE /\ chunks' = chunks
               /\ h_calls' = [h_calls EXCEPT
                     ![t].pc = "return", ![t].result = [ok |-> TRUE, rows |-> {}]]

\* the method returns: the guard is dropped
HandleReturn(t) ==
    /\ UNCHANGED <<not_h_vars, chunks>>
    /\ h_calls[t].pc = "return"
    /\ mutex' = NULL
    /\ h_log' = Append(h_log, [thread |-> t, call |-> h_calls[t].call,
                               result |-> h_calls[t].result])
    /\ h_calls' = [h_calls EXCEPT ![t] = NoCall]

HandleIdle ==
    /\ mutex = NULL
    /\ h_calls = [t \in Threads |-> NoCall]
    /\ h_log = <<>>

NextHandle ==
    \E t \in Threads :
        \/ HandleCall(t)
        \/ HandleLock(t)
        \/ HandleExecute(t)
        \/ HandleReturn(t)

\* one call run alone on table tbl: the table it leaves and what it returns
ApplyCall(tbl, c) ==
    IF c.op = "get_chunk"
    THEN [table |-> tbl,
          result |-> [ok |-> TRUE, rows |-> {x \in tbl : x.chunk_id = c.arg}]]
    ELSE LET r == upsert_chunks_batch(tbl, c.arg, c.fail_at)
         IN [table |-> r.table, result |-> [ok |-> r.ok, rows |-> {}]]

\* the calls of log, run one after the other in the order o on a fresh catalog,
\* return what the log says and leave the table final
RunsAs(log, o, final) ==
    LET f[i \in 0..Len(o)] ==
            IF i = 0 THEN [table |-> {}, same |-> TRUE]
            ELSE LET r == ApplyCall(f[i - 1].table, log[o[i]].call)
                 IN [table |-> r.table,
                     same |-> f[i - 1].same /\ log[o[i]].result = r.result]
    IN f[Len(o)].same /\ f[Len(o)].table = final

Serializable(log, final) == \E o \in Orders(1..Len(log)) : RunsAs(log, o, final)

(***************************************************************************)
(* Parser: parse_files_parallel                                            *)
(*                                                                         *)
(* files.par_iter().filter_map(closure).collect(): the pool runs the       *)
(* closure on the files in any order; collect puts the Some values into    *)
(* the vector in the order of the input.                                   *)
(***************************************************************************)
\* longest `files` argument
MaxFiles == 3

\* the FileInput values: path, content (with the tree the grammar gives it),
\* and whether parser.set_language and parser.parse succeed on it
FileInputs ==
    {[path |-> "a.rs", file |-> OneNodeFile(13, 60), parses |-> TRUE],
     [path |-> "b.py", file |-> OneNodeFile(2, 60), parses |-> FALSE],
     [path |-> "c.txt", file |-> PlainFile(31, 60, FALSE), parses |-> FALSE],
     [path |-> "d.ts", file |-> TwoNodeFile(1, 60, 1, 1, 2, 60, 0), parses |-> TRUE]}

\* extract_chunks: the walk over the semantic nodes, then the fallback or merge
extract_chunks(file) ==
    LET walk[i \in 0..Len(file.nodes)] ==
            IF i = 0 THEN <<>>
            ELSE extract_semantic_node(file.source, file.nodes[i], walk[i - 1])
        walked == walk[Len(file.nodes)]
    IN IF walked = <<>> THEN chunk_by_lines(file.source)
       ELSE merge_small_chunks(walked)

\* parse_file_internal as a function of its arguments
parse_file_internal(input) ==
    IF ~input.file.known
    THEN [ok |-> TRUE, chunks |-> chunk_by_lines(input.file.source)]
    ELSE IF ~input.parses THEN [ok |-> FALSE, chunks |-> <<>>]
    ELSE [ok |-> TRUE, chunks |-> extract_chunks(input.file)]

\* stand-in for xxh3_64 over the bytes of the content, kept to 16 bits
Xxh3(content) ==
    LET mix[i \in 0..Len(content)] ==
            IF i = 0 THEN 40503
            ELSE (mix[i - 1] * 31 + content[i] + 1) % 65536
    IN mix[Len(content)]

\* format!("{:016x}", h): sixteen hexadecimal digits, most significant first
Hex16(h) ==
    LET digit[i \in 1..16] == IF i >= 13 THEN (h \div (16 ^ (16 - i))) % 16 ELSE 0
    IN digit

xxhash_content(content) == Hex16(Xxh3(content))

NoParsedFile == [path |-> "", chunks |-> <<>>, hash |-> <<>>]

PendingSlot == [done |-> FALSE, some |-> FALSE, value |-> NoParsedFile]

\* the filter_map closure on one file
ParseOne(input) ==
    LET r == parse_file_internal(input)
    IN IF ~r.ok THEN [done |-> TRUE, some |-> FALSE, value |-> NoParsedFile]
       ELSE [done |-> TRUE, some |-> TRUE,
             value |-> [path |-> input.path, chunks |-> r.chunks,
                        hash |-> xxhash_content(input.file.source)]]

\* the Some values in the order the workers produced them
collect_as_completed(slots, order) ==
    LET kept == SelectSeq(order, LAMBDA i : slots[i].some)
    IN [k \in 1..Len(kept) |-> slots[kept[k]].value]

\* collect(): the Some values in the order of the input
collect(slots, order) ==
    LET kept == SelectSeq([i \in 1..Len(slots) |-> i], LAMBDA i : slots[i].some)
    IN [k \in 1..Len(kept) |-> slots[kept[k]].value]

\* parse_files_parallel is called
ParseFilesParallel ==
    /\ UNCHANGED not_pf_vars
    /\ pf_ret.op \in {"idle", "returned"}
    /\ \E files \in SeqsUpTo(FileInputs, MaxFiles) :
        /\ pf_files' = files
        /\ pf_slots' = [i \in 1..Len(files) |-> PendingSlot]
    /\ pf_order' = <<>>
    /\ pf_ret' = [op |-> "running", ok |-> TRUE, value |-> <<>>]

\* a worker of the pool runs the closure on a file no worker has taken
FilterMapFile ==
    /\ UNCHANGED not_pf_vars
    /\ pf_ret.op = "running"
    /\ \E i \in 1..Len(pf_files) :
        /\ ~pf_slots[i].done
        /\ pf_slots' = [pf_slots EXCEPT ![i] = ParseOne(pf_files[i])]
        /\ pf_order' = Append(pf_order, i)
    /\ UNCHANGED <<pf_files, pf_ret>>

\* every file has been run: collect() and Ok(results)
CollectResults ==
    /\ UNCHANGED not_pf_vars
    /\ pf_ret.op = "running"
    /\ \A i \in 1..Len(pf_files) : pf_slots[i].done
    /\ pf_ret' = [op |-> "returned", ok |-> TRUE,
                  value |-> collect(pf_slots, pf_order)]
    /\ UNCHANGED <<pf_files, pf_slots, pf_order>>

ParseFilesIdle ==
    /\ pf_files = <<>>
    /\ pf_slots = <<>>
    /\ pf_order = <<>>
    /\ pf_ret = [op |-> "idle", ok |-> TRUE, value |-> <<>>]

NextParseFiles ==
    \/ ParseFilesParallel
    \/ FilterMapFile
    \/ CollectResults

(***************************************************************************)
(* Catalog: init_db and migrate_schema                                     *)
(*                                                                         *)
(* migrate_schema runs its statements on the bare connection, one after    *)
(* the other; a statement that fails (SQLITE_FULL, SQLITE_BUSY, an I/O     *)
(* error) makes init_db return the error with the earlier statements       *)
(* committed.  The file can be opened again afterwards.                    *)
(***************************************************************************)
SCHEMA_VERSION == 2

V1Tables == {"metadata", "embeddings", "chunks", "branch_chunks"}

V2Tables == {"symbols", "call_edges", "branch_symbols"}

\* SCHEMA_VERSION.to_string()
I32ToString(n) == U64ToString(n)

\* `.and_then(|v: String| v.parse().ok()).unwrap_or(0)` on the optional value
ParseVersion(value) ==
    IF value # NULL /\ \E n \in 0..99 : U64ToString(n) = value
    THEN U64FromString(value)
    ELSE 0

\* the SELECT of init_db: an error (no metadata table) and no row both give 0
current_version(tabs, value) ==
    IF "metadata" \in tabs THEN ParseVersion(value) ELSE 0

\* CREATE TABLE IF NOT EXISTS for each of names: existing tables and their rows
\* stay as they are
create_tables(tabs, names) == tabs \cup names

\* Connection::open, the PRAGMAs, the schema_version query and the version test
InitDbOpen ==
    /\ UNCHANGED not_mig_vars
    /\ init_pc \in {"closed", "ready", "failed"}
    /\ from_version' = current_version(schema_tables, stored_version)
    /\ init_pc' = IF from_version' < SCHEMA_VERSION THEN "v1" ELSE "ready"
    /\ UNCHANGED <<schema_tables, schema_rows, stored_version>>

\* `if from_version < 1`: the execute_batch that creates the v1 tables
MigrateCreateV1 ==
    /\ UNCHANGED not_mig_vars
    /\ init_pc = "v1"
    /\ IF from_version < 1
       THEN \E fails \in BOOLEAN :
               IF fails THEN init_pc' = "failed" /\ UNCHANGED schema_tables
               ELSE /\ schema_tables' = create_tables(schema_tables, V1Tables)
                    /\ init_pc' = "v1_version"
       ELSE init_pc' = "v2" /\ UNCHANGED schema_tables
    /\ UNCHANGED <<schema_rows, stored_version, from_version>>

\* INSERT OR REPLACE INTO metadata ... ('schema_version', SCHEMA_VERSION) of the
\* v1 block
MigrateSetVersionV1 ==
    /\ UNCHANGED not_mig_vars
    /\ init_pc = "v1_version"
    /\ \E fails \in BOOLEAN :
        IF fails THEN init_pc' = "failed" /\ UNCHANGED stored_version
        ELSE /\ stored_version' = I32ToString(SCHEMA_VERSION)
             /\ init_pc' = "v2"
    /\ UNCHANGED <<schema_tables, schema_rows, from_version>>

\* `if from_version < 2`: the execute_batch that creates the v2 tables
MigrateCreateV2 ==
    /\ UNCHANGED not_mig_vars
    /\ init_pc = "v2"
    /\ IF from_version < 2
       THEN \E fails \in BOOLEAN :
               IF fails THEN init_pc' = "failed" /\ UNCHANGED schema_tables
               ELSE /\ schema_tables' = create_tables(schema_tables, V2Tables)
                    /\ init_pc' = "v2_version"
       ELSE init_pc' = "ready" /\ UNCHANGED schema_tables
    /\ UNCHANGED <<schema_rows, stored_version, from_version>>

\* the INSERT OR REPLACE of the v2 block, then Ok(())
MigrateSetVersionV2 ==
    /\ UNCHANGED not_mig_vars
    /\ init_pc = "v2_version"
    /\ \E fails \in BOOLEAN :
        IF fails THEN init_pc' = "failed" /\ UNCHANGED stored_version
        ELSE /\ stored_version' = I32ToString(SCHEMA_VERSION)
             /\ init_pc' = "ready"
    /\ UNCHANGED <<schema_tables, schema_rows, from_version>>

\* rows that can be in a file with the tables tabs
RowsIn(tabs) == SUBSET {<<t, 1>> : t \in tabs \ {"metadata"}}

\* a file of the current schema, closed
SchemaCurrent ==
    /\ schema_tables = V1Tables \cup V2Tables
    /\ schema_rows = {}
    /\ stored_version = I32ToString(SCHEMA_VERSION)
    /\ from_version = 0
    /\ init_pc = "closed"

\* the files init_db meets: none yet, one written by the release that had only
\* the v1 schema, one of the current schema
InitSchema ==
    /\ \/ schema_tables = {} /\ stored_version = NULL
       \/ schema_tables = V1Tables /\ stored_version = I32ToString(1)
       \/ schema_tables = V1Tables \cup V2Tables
            /\ stored_version = I32ToString(SCHEMA_VERSION)
    /\ schema_rows \in RowsIn(schema_tables)
    /\ from_version = 0
    /\ init_pc = "closed"

NextSchema ==
    \/ InitDbOpen
    \/ MigrateCreateV1
    \/ MigrateSetVersionV1
    \/ MigrateCreateV2
    \/ MigrateSetVersionV2

(***************************************************************************)
(* Call extractor (call_extractor.rs)                                      *)
(***************************************************************************)
\* the bound on the query matches of one call
MaxMatches == 2

\* language_name values: three with a call query, and one without
CallLanguages == {"typescript", "python", "rust", "text"}

\* the languages the first match of extract_calls does not return early for
HasCallQuery(language) ==
    language \in {"typescript", "tsx", "javascript", "jsx", "python", "rust", "go"}

method_parent_kinds(language) ==
    CASE language \in {"typescript", "tsx", "javascript", "jsx"} -> {"member_expression"}
      [] language = "python" -> {"attribute"}
      [] language = "rust" -> {"field_expression"}
      [] language = "go" -> {"selector_expression"}
      [] OTHER -> {}

ImportCaptures == {"import.name", "import.default", "import.namespace"}

\* a node of the tree: its text, start position and the kind of its parent
Node(text, row, column, parent) ==
    [text |-> text, row |-> row, column |-> column, parent |-> parent]

Capture(index, node) == [index |-> index, node |-> node]

\* the callee of foo(), the property of obj.method() on the second line, and
\* the whole call expression
DirectCallee == Node("foo", 0, 0, "call_expression")

MemberCallee(language) ==
    Node("method", 1, 4, CHOOSE k \in method_parent_kinds(language) : TRUE)

CallNode == Node("foo()", 0, 0, "expression_statement")

\* the matches the call queries produce: a call or a constructor pattern
\* captures the expression and its name, an import pattern one identifier;
\* the last three are patterns that capture too little to name a site
QueryMatches(language) ==
    { <<Capture("call", CallNode), Capture("callee.name", DirectCallee)>>,
      <<Capture("call", CallNode), Capture("callee.name", MemberCallee(language))>>,
      <<Capture("callee.name", MemberCallee(language)), Capture("call", CallNode)>>,
      <<Capture("constructor", CallNode), Capture("callee.name", DirectCallee)>>,
      <<Capture("callee.name", MemberCallee(language)), Capture("constructor", CallNode)>>,
      <<Capture("import.name", DirectCallee)>>,
      <<Capture("import.default", MemberCallee(language))>>,
      <<Capture("import.namespace", DirectCallee)>>,
      <<Capture("call", CallNode)>>,
      <<Capture("callee.name", DirectCallee)>>,
      <<Capture("comment", CallNode)>> }

\* QueryCursor::captures yields a match once for each of its captures
RECURSIVE QueryCaptures(_)
QueryCaptures(matches) ==
    IF matches = <<>> THEN <<>>
    ELSE [i \in 1..Len(Head(matches)) |-> Head(matches)] \o QueryCaptures(Tail(matches))

\* (start.row as u32 + 1, start.column as u32)
StartPosition(node) == <<node.row + 1, node.column>>

\* callee_name, call_type and position before the captures of a match are read;
\* the empty tuple is the position None
NoCapture == [callee_name |-> NULL, call_type |-> NULL, position |-> <<>>]

\* the body of the loop over match_.captures
CaptureStep(st, capture) ==
    LET node == capture.node
        s1 == IF capture.index = "callee.name"
              THEN [st EXCEPT !.callee_name = node.text,
                              !.position = IF @ = <<>> THEN StartPosition(node) ELSE @]
              ELSE st
        s2 == IF capture.index = "call" /\ s1.call_type = NULL
              THEN [s1 EXCEPT !.call_type = "Call"]
              ELSE s1
        s3 == IF capture.index = "constructor"
              THEN [s2 EXCEPT !.call_type = "Constructor"]
              ELSE s2
    IN  IF capture.index \in ImportCaptures
        THEN [callee_name |-> node.text, call_type |-> "Import",
              position |-> StartPosition(node)]
        ELSE s3

RECURSIVE CaptureLoop(_, _)
CaptureLoop(st, captures) ==
    IF captures = <<>> THEN st
    ELSE CaptureLoop(CaptureStep(st, Head(captures)), Tail(captures))

\* every call is reported as a plain call
is_method_call_never(captures, language) == FALSE

is_method_call(captures, language) ==
    \E i \in DOMAIN captures :
        /\ captures[i].index = "callee.name"
        /\ captures[i].node.parent # NULL
        /\ captures[i].node.parent \in method_parent_kinds(language)

CallSite(name, position, call_type) ==
    [callee_name |-> name, line |-> position[1], column |-> position[2],
     call_type |-> call_type]

\* what one turn of the while loop pushes on calls
PushedSites(captures, language) ==
    LET st == CaptureLoop(NoCapture, captures)
    IN  IF st.callee_name = NULL \/ st.call_type = NULL \/ st.position = <<>>
        THEN <<>>
        ELSE IF st.call_type = "Call"
        THEN <<CallSite(st.callee_name, st.position,
                        IF is_method_call(captures, language)
                        THEN "MethodCall" ELSE "Call")>>
        ELSE <<CallSite(st.callee_name, st.position, st.call_type)>>

CallsIdle ==
    /\ ce_lang = "text"
    /\ ce_iter = <<>>
    /\ ce_calls = <<>>
    /\ ce_ret = [op |-> "idle", value |-> <<>>]

MatchLists(language) ==
    UNION {[1..n -> QueryMatches(language)] : n \in 0..MaxMatches}

\* extract_calls up to the creation of captures_iter
ExtractCalls ==
    /\ ce_ret.op \in {"idle", "extract_calls"}
    /\ \E language \in CallLanguages :
        /\ ce_lang' = language
        /\ ce_calls' = <<>>
        /\ IF HasCallQuery(language)
           THEN /\ \E matches \in MatchLists(language) :
                        ce_iter' = QueryCaptures(matches)
                /\ ce_ret' = [op |-> "captures", value |-> <<>>]
           ELSE /\ ce_iter' = <<>>
                /\ ce_ret' = [op |-> "extract_calls", value |-> <<>>]
    /\ UNCHANGED not_ce_vars

\* one turn of the while loop
ProcessMatch ==
    /\ ce_ret.op \in {"captures", "match"}
    /\ ce_iter # <<>>
    /\ ce_calls' = ce_calls \o PushedSites(Head(ce_iter), ce_lang)
    /\ ce_iter' = Tail(ce_iter)
    /\ ce_ret' = [op |-> "match", value |-> <<>>]
    /\ UNCHANGED <<ce_lang, not_ce_vars>>

\* Ok(calls)
ReturnCalls ==
    /\ ce_ret.op \in {"captures", "match"}
    /\ ce_iter = <<>>
    /\ ce_ret' = [op |-> "extract_calls", value |-> ce_calls]
    /\ UNCHANGED <<ce_lang, ce_iter, ce_calls, not_ce_vars>>

NextCalls ==
    \/ ExtractCalls
    \/ ProcessMatch
    \/ ReturnCalls

(***************************************************************************)
(* Specifications: one per component, the other components at rest         *)
(***************************************************************************)
InitIndex == IndexFresh /\ DbFresh /\ foreign_keys = FALSE /\ ParserIdle /\ StoreFresh
    /\ HandleIdle /\ ParseFilesIdle /\ SchemaCurrent /\ CallsIdle

SpecIndex == InitIndex /\ [][NextIndex]_vars

\* the catalog's chunk side
Init ==
    IndexFresh /\ DbFresh /\ foreign_keys \in BOOLEAN /\ ParserIdle /\ StoreFresh
    /\ HandleIdle /\ ParseFilesIdle /\ SchemaCurrent /\ CallsIdle

Spec == Init /\ [][Next]_vars

\* the catalog's call graph side
SpecSymbols == Init /\ [][NextSymbols]_vars

SpecRows == Init /\ [][NextRows]_vars

\* the catalog's batch writes
SpecBatch == Init /\ [][NextBatch]_vars

\* the embeddings table
SpecEmbeddings == Init /\ [][NextEmbeddings]_vars

\* the branch membership tables
SpecBranches == Init /\ [][NextBranches]_vars

\* threads sharing one Database handle
SpecHandle == InitIndex /\ [][NextHandle]_vars

\* one batch on the worker pool
SpecParseFiles == InitIndex /\ [][NextParseFiles]_vars

\* opening one database file, again and again
InitMigrate ==
    IndexFresh /\ DbFresh /\ foreign_keys = FALSE /\ ParserIdle /\ StoreFresh
    /\ HandleIdle /\ ParseFilesIdle /\ InitSchema /\ CallsIdle

SpecSchema == InitMigrate /\ [][NextSchema]_vars

\* one parse of each file
InitParse ==
    IndexFresh /\ DbFresh /\ foreign_keys = FALSE /\ InitParser /\ StoreFresh
    /\ HandleIdle /\ ParseFilesIdle /\ SchemaCurrent /\ CallsIdle

SpecParser == InitParse /\ [][NextParser]_vars

\* one vector store and its files
SpecStore == InitIndex /\ [][NextStore]_vars

\* calls of extract_calls, one after another
SpecCalls == InitIndex /\ [][NextCalls]_vars

(***************************************************************************)
(* Claims about the inverted index (checked under SpecIndex)               *)
(***************************************************************************)

\* C1: search returns the empty list, or a list in which no score exceeds 1.0
\* and the first (top) score is exactly 1.0.
C1_SearchTopScoreIsOne ==
    ii_ret.op = "search" =>
        \/ ii_ret.value = <<>>
        \/ /\ \A i \in 1..Len(ii_ret.value) : ii_ret.value[i][2] <= Scale
           /\ ii_ret.value[1][2] = Scale

\* C2 as stated: add_chunk(id, c) followed by remove_chunk(id) restores
\* document_count and total_token_count, and no posting set is left empty;
\* for every chunk id, present before the add_chunk or not.
C2_AddRemoveRestoresAnyId ==
    ii_prev.op = "add_remove" =>
        /\ document_count(chunk_tokens) = ii_prev.doc_count
        /\ total_token_count = ii_prev.total
        /\ \A t \in DOMAIN term_to_chunks : term_to_chunks[t] # {}

\* C2 amended: the same, for a chunk id that was not in the index before the
\* add_chunk.
C2_AddRemoveRestoresFreshId ==
    (ii_prev.op = "add_remove" /\ ~ii_prev.present) =>
        /\ document_count(chunk_tokens) = ii_prev.doc_count
        /\ total_token_count = ii_prev.total
        /\ \A t \in DOMAIN term_to_chunks : term_to_chunks[t] # {}

\* C2 witness: a fresh id was added to a non-empty index and removed again
C2_Witness ==
    /\ ii_prev.op = "add_remove"
    /\ ~ii_prev.present
    /\ ii_prev.doc_count > 0
    /\ ii_prev.total > 0

(***************************************************************************)
(* Claims about the catalog's chunk side (checked under Spec)              *)
(***************************************************************************)
\* C3: gc_orphan_embeddings deletes exactly the embeddings whose content_hash
\* is referenced by no chunk: afterwards no embedding has a hash absent from
\* chunks, every embedding referenced by a chunk is still there with the same
\* columns, nothing else appears, and the returned count is the number of rows
\* deleted.
C3_GcOrphanEmbeddingsExact ==
    [][db_ret'.op = "gc_orphan_embeddings" =>
        /\ \A e \in embeddings' : \E c \in chunks' : c.content_hash = e.content_hash
        /\ \A e \in embeddings :
              (\E c \in chunks : c.content_hash = e.content_hash) => e \in embeddings'
        /\ embeddings' \subseteq embeddings
        /\ chunks' = chunks
        /\ db_ret'.value = Cardinality(embeddings \ embeddings')]_vars

\* C3 witness: the sweep deleted an orphan and kept a referenced embedding
C3_Witness ==
    /\ db_ret.op = "gc_orphan_embeddings"
    /\ db_ret.value > 0
    /\ embeddings # {}

\* C5: get_branch_delta(b, base) returns added = members(b) \ members(base) and
\* removed = members(base) \ members(b) as sets, for every pair of branches
\* (equal ones and empty ones included), and changes no table.
C5_BranchDeltaIsSetDifference ==
    [][db_ret'.op = "get_branch_delta" =>
        LET b == db_ret'.branch
            base == db_ret'.base_branch
            members_b == {c \in DbChunkIds : <<b, c>> \in branch_chunks}
            members_base == {c \in DbChunkIds : <<base, c>> \in branch_chunks}
        IN /\ Range(db_ret'.value.added) = members_b \ members_base
           /\ Range(db_ret'.value.removed) = members_base \ members_b
           /\ db_tables' = db_tables]_vars

\* C5 witness: a delta between two different branches with something on each side
C5_Witness ==
    /\ db_ret.op = "get_branch_delta"
    /\ db_ret.branch # db_ret.base_branch
    /\ db_ret.value.added # <<>>
    /\ db_ret.value.removed # <<>>

(***************************************************************************)
(* Claims about symbols, call edges and row round trips                    *)
(***************************************************************************)
\* C4: right after gc_orphan_symbols returns successfully, no surviving call
\* edge has a from_symbol_id that is absent from the symbols table.
C4_NoDanglingEdgeAfterGcOrphanSymbols ==
    (db_ret.op = "gc_orphan_symbols" /\ db_ret.ok) =>
        \A e \in call_edges : \E x \in symbols : x.id = e.from_symbol_id

\* C6: after upsert_chunk(r), get_chunk(r.chunk_id) returns r field for field,
\* exactly one row has that chunk_id and the rows of other chunk_ids are
\* unchanged; the same for upsert_symbol read through get_symbols_by_file and
\* for a successful upsert_call_edge read through get_callees, where
\* is_resolved comes back as the boolean that was written.
C6_UpsertThenGetRoundTrip ==
    [][/\ db_ret'.op = "upsert_chunk" =>
            LET r == db_ret'.value
            IN /\ get_chunk(chunks', r.chunk_id) = {r}
               /\ Cardinality({x \in chunks' : x.chunk_id = r.chunk_id}) = 1
               /\ {x \in chunks' : x.chunk_id # r.chunk_id}
                    = {x \in chunks : x.chunk_id # r.chunk_id}
       /\ db_ret'.op = "upsert_symbol" =>
            LET r == db_ret'.value
            IN /\ \A o \in get_symbols_by_file(symbols', r.file_path) :
                    /\ \E i \in DOMAIN o : o[i] = r
                    /\ Cardinality({i \in DOMAIN o : o[i].id = r.id}) = 1
               /\ Cardinality({x \in symbols' : x.id = r.id}) = 1
               /\ {x \in symbols' : x.id # r.id} = {x \in symbols : x.id # r.id}
       /\ (db_ret'.op = "upsert_call_edge" /\ db_ret'.ok) =>
            LET e == db_ret'.value
            IN /\ Cardinality({x \in call_edges' : x.id = e.id}) = 1
               /\ {x \in call_edges' : x.id # e.id}
                    = {x \in call_edges : x.id # e.id}
               /\ \A b \in Branches :
                    \A o \in get_callees(call_edges', symbols', branch_symbols',
                                         e.from_symbol_id, b) :
                        /\ \A i \in DOMAIN o : o[i].id = e.id => o[i] = e
                        /\ ( /\ \E x \in symbols' : x.id = e.from_symbol_id
                             /\ <<b, e.from_symbol_id>> \in branch_symbols' )
                           => \E i \in DOMAIN o : o[i] = e]_vars

\* C6 witness: an upsert replaced a different row stored under the same
\* chunk_id while another chunk, a symbol and a resolved call edge readable on
\* a branch were stored
C6_Witness ==
    /\ db_ret.op = "upsert_chunk"
    /\ db_ret.replaced
    /\ Cardinality(chunks) = 2
    /\ symbols # {}
    /\ \E e \in call_edges, b \in Branches :
          /\ e.is_resolved = 1
          /\ <<b, e.from_symbol_id>> \in branch_symbols
          /\ \E x \in symbols : x.id = e.from_symbol_id

(***************************************************************************)
(* Claims about the parser (checked under SpecParser)                      *)
(***************************************************************************)
\* C7: every chunk parse_file returns, emitted directly, by splitting, by
\* merging or by the line-window fallback, has a content of at least
\* MIN_CHUNK_SIZE and at most MAX_CHUNK_SIZE bytes.
C7_ChunkSizeWithinMinMax ==
    p_pc = "done" =>
        \A i \in DOMAIN p_chunks :
            /\ ByteLen(p_chunks[i].content) >= MIN_CHUNK_SIZE
            /\ ByteLen(p_chunks[i].content) <= MAX_CHUNK_SIZE

\* C8: every chunk parse_file returns has start_line <= end_line, and every
\* semantic chunk (direct, split or merged) has start_line >= 1.
C8_LinesOrdered ==
    p_pc = "done" =>
        \A i \in DOMAIN p_chunks :
            /\ p_chunks[i].start_line <= p_chunks[i].end_line
            /\ p_chunks[i].chunk_type = "semantic" => p_chunks[i].start_line >= 1

\* C8 witness: a parse returned a merged chunk and sub-chunks of a split
C8_Witness ==
    /\ p_pc = "done"
    /\ \E i \in DOMAIN p_chunks : p_chunks[i].origin = "merged"
    /\ \E i \in DOMAIN p_chunks : p_chunks[i].origin = "split"

(***************************************************************************)
(* Claims about the vector store (checked under SpecStore)                 *)
(***************************************************************************)
\* C9: as long as every add, add_batch and remove so far has succeeded,
\* key_to_id and id_to_key are mutually inverse: key_to_id[k] = i exactly
\* when id_to_key[i] = k.
C9_MapsMutuallyInverse ==
    ~vs_failed =>
        /\ \A k \in DOMAIN stored.key_to_id :
              /\ stored.key_to_id[k] \in DOMAIN stored.id_to_key
              /\ stored.id_to_key[stored.key_to_id[k]] = k
        /\ \A i \in DOMAIN stored.id_to_key :
              /\ stored.id_to_key[i] \in DOMAIN stored.key_to_id
              /\ stored.key_to_id[stored.id_to_key[i]] = i

\* C10: over any sequence of add, add_batch (succeeding or failing), remove,
\* clear, save and load on one VectorStore, next_id never decreases and no id
\* that was once passed to index.add is passed to it again.
C10_NextIdMonotoneNoReuse ==
    [][vs_ret'.op # "new" =>
        /\ stored'.next_id >= stored.next_id
        /\ vs_ret'.handed \cap vs_handed = {}]_vars

\* C11: add, add_batch and search given a vector whose length differs from the
\* store's dimension return an error and leave the index, key_to_id,
\* id_to_key, metadata and next_id as they were; for add_batch one wrong
\* vector anywhere in the batch is enough, whether or not keys of the batch
\* are already stored.
C11_DimensionMismatchIsErrorBeforeMutation ==
    [][(vs_ret'.op \in {"add", "add_batch", "search"} /\ vs_ret'.bad_dim) =>
        /\ ~vs_ret'.ok
        /\ vs_index' = vs_index
        /\ stored' = stored]_vars

\* C11 witness: an add_batch with a wrong vector named a key that is stored
C11_Witness ==
    /\ vs_ret.op = "add_batch"
    /\ vs_ret.bad_dim
    /\ vs_ret.existing
    /\ ~vs_ret.ok

\* C12: constructing a new VectorStore right after save gives the same
\* count(), key_to_id, id_to_key, metadata and next_id and the same index, so
\* every search has the outcomes it had before; a store whose index holds one
\* vector, mapped to key k, answers search(v, 1) with k.
C12_SaveThenNewRestores ==
    [][(vs_ret.op = "save" /\ vs_ret'.op = "new") =>
        /\ count(stored') = count(stored)
        /\ stored' = stored
        /\ vs_index' = vs_index
        /\ \A q \in Vectors, l \in Limits :
              vs_search(vs_index', stored', q, l) = vs_search(vs_index, stored, q, l)
        /\ \A k \in Keys :
              ( /\ DOMAIN stored.key_to_id = {k}
                /\ DOMAIN vs_index = {stored.key_to_id[k]}
                /\ stored.key_to_id[k] \in DOMAIN stored.id_to_key )
              => \A r \in vs_search(vs_index', stored', ValidVector, 1) :
                    /\ r.ok
                    /\ Len(r.results) = 1
                    /\ r.results[1].id = stored.id_to_key[stored.key_to_id[k]]]_vars

\* C12 witness: a store reopened right after save holds two keys and has
\* handed out more ids than it holds
C12_Witness ==
    /\ vs_ret.op = "new"
    /\ vs_ret.after_save
    /\ count(stored) = 2
    /\ stored.next_id > 2

(***************************************************************************)
(* Further claims about the catalog                                        *)
(***************************************************************************)
\* C13: in every reachable catalog state every chunk_id in branch_chunks is
\* the chunk_id of a row of chunks.
C13_BranchChunksReferenceChunks ==
    \A p \in branch_chunks : \E c \in chunks : c.chunk_id = p[2]

\* C14: after gc_orphan_call_edges returns, no call edge has a from_symbol_id
\* absent from symbols, exactly the edges with an absent from_symbol_id were
\* deleted (and counted), and symbols and all other edges are unchanged.
C14_GcOrphanCallEdgesExact ==
    [][db_ret'.op = "gc_orphan_call_edges" =>
        /\ \A e \in call_edges' : \E x \in symbols' : x.id = e.from_symbol_id
        /\ call_edges' =
              {e \in call_edges : \E x \in symbols : x.id = e.from_symbol_id}
        /\ db_ret'.value = Cardinality(call_edges \ call_edges')
        /\ symbols' = symbols
        /\ branch_symbols' = branch_symbols]_vars

\* C14 witness: the sweep deleted a dangling edge and kept another edge
C14_Witness ==
    /\ db_ret.op = "gc_orphan_call_edges"
    /\ db_ret.value > 0
    /\ call_edges # {}

(***************************************************************************)
(* Claims about the catalog's batch writes (checked under SpecBatch)       *)
(***************************************************************************)
\* C15: for each of the six *_batch writes, a call in which the execution of a
\* row (or the commit) fails returns an error and leaves every table as it was
\* before the call, and a call with an empty batch returns success and changes
\* nothing.
C15_FailedBatchLeavesNoRow ==
    [][db_ret'.op \in BatchOps =>
          /\ db_ret'.failed # 0 => ~db_ret'.ok /\ db_tables' = db_tables
          /\ db_ret'.value = <<>> => db_ret'.ok /\ db_tables' = db_tables]_vars

\* a batch failed after its transaction had already written a row
C15_Witness ==
    /\ db_ret.op = "upsert_call_edges_batch"
    /\ ~db_ret.ok
    /\ db_ret.partial
    /\ db_ret.failed = 2

(***************************************************************************)
(* Claims about errors of the catalog (checked under SpecSymbols)          *)
(***************************************************************************)
\* C16: every catalog operation that returns an error leaves every table of
\* the catalog exactly as it was before the call, including
\* add_symbols_to_branch failing on a later id and gc_orphan_symbols failing
\* in its second deletion.
C16_ErrorLeavesCatalogUnchanged ==
    [][~db_ret'.ok => db_tables' = db_tables]_vars

(***************************************************************************)
(* Claims about the embeddings table (checked under SpecEmbeddings)        *)
(***************************************************************************)
\* the rows of tbl stored under content_hash h
EmbeddingsOf(tbl, h) == {x \in tbl : x.content_hash = h}

\* the rows of a batch that carry content_hash h, in batch order
RowsWithHash(rows, h) == SelectSeq(rows, LAMBDA e : e.content_hash = h)

\* what one call that wrote `rows` (one row for upsert_embedding) did to hash h
EmbeddingUpserted(before, after, rows, h) ==
    LET mine == RowsWithHash(rows, h)
    IN IF mine = <<>> THEN EmbeddingsOf(after, h) = EmbeddingsOf(before, h)
       ELSE \E y \in after :
              /\ EmbeddingsOf(after, h) = {y}
              /\ y.embedding = mine[Len(mine)].embedding
              /\ y.model = mine[Len(mine)].model
              /\ IF EmbeddingsOf(before, h) = {}
                 THEN y.chunk_text = mine[1].chunk_text
                 ELSE \A x \in EmbeddingsOf(before, h) :
                         /\ y.chunk_text = x.chunk_text
                         /\ y.created_at = x.created_at

\* C17: upsert_embedding, and each row of a committed upsert_embeddings_batch,
\* on a stored content_hash replaces embedding and model and keeps chunk_text
\* and created_at of the first insertion; on a new content_hash it stores the
\* given values; rows of other hashes are unchanged and every content_hash has
\* exactly one row.
C17_UpsertEmbeddingKeepsChunkText ==
    [][/\ db_ret'.op = "upsert_embedding" =>
            \A h \in Hashes :
                EmbeddingUpserted(embeddings, embeddings', <<db_ret'.value>>, h)
       /\ (db_ret'.op = "upsert_embeddings_batch" /\ db_ret'.ok) =>
            \A h \in Hashes :
                EmbeddingUpserted(embeddings, embeddings', db_ret'.value, h)
       /\ \A x, y \in embeddings' : x.content_hash = y.content_hash => x = y]_vars

\* an upsert on a stored hash brought another chunk_text, which was not stored
C17_Witness ==
    /\ db_ret.op = "upsert_embedding"
    /\ \E x \in embeddings :
          /\ x.content_hash = db_ret.value.content_hash
          /\ x.chunk_text # db_ret.value.chunk_text
          /\ x.model = db_ret.value.model
          /\ x.created_at = 1
    /\ Cardinality(embeddings) = 2

(***************************************************************************)
(* Claims about branch membership (checked under SpecBranches)             *)
(***************************************************************************)
\* adding ids to a branch of table tbl is idempotent, adds an id listed twice
\* once, and changes nothing when every pair is already a member
AddIsSetInsertion(add_ids(_, _, _), tbl, Ids) ==
    \A b \in Branches, ids \in SeqsUpTo(Ids, MaxIdList) :
        LET once == add_ids(tbl, b, ids)
        IN /\ add_ids(once, b, ids) = once
           /\ add_ids(tbl, b, ids \o ids) = once
           /\ (\A i \in 1..Len(ids) : <<b, ids[i]>> \in tbl) => once = tbl
           /\ once = tbl \cup {<<b, ids[i]>> : i \in 1..Len(ids)}

\* C18: adding a (branch, id) pair that already is a member succeeds and leaves
\* the membership tables unchanged; add_chunks_to_branch, add_symbols_to_branch
\* and their batch variants are idempotent and add an id listed twice once;
\* get_branch_chunk_ids never returns the same id twice.
C18_BranchMembershipIsSet ==
    [][/\ db_ret'.op = "add_chunks_to_branch" =>
            /\ (db_ret'.ok /\ db_ret'.readded) => db_tables' = db_tables
            /\ AddIsSetInsertion(add_chunks_to_branch, branch_chunks', DbChunkIds)
       /\ db_ret'.op = "add_symbols_to_branch" =>
            /\ (db_ret'.ok /\ db_ret'.readded) => db_tables' = db_tables
            /\ AddIsSetInsertion(add_symbols_to_branch, branch_symbols', SymbolIds)
       /\ (db_ret'.op = "add_chunks_to_branch_batch" /\ db_ret'.ok) =>
            /\ \E b \in BatchBranches :
                  branch_chunks' = branch_chunks
                      \cup {<<b, db_ret'.value[i]>> : i \in 1..Len(db_ret'.value)}
            /\ branch_symbols' = branch_symbols
       /\ (db_ret'.op = "add_symbols_to_branch_batch" /\ db_ret'.ok) =>
            /\ \E b \in BatchBranches :
                  branch_symbols' = branch_symbols
                      \cup {<<b, db_ret'.value[i]>> : i \in 1..Len(db_ret'.value)}
            /\ branch_chunks' = branch_chunks
       /\ db_ret'.op = "get_branch_chunk_ids" =>
            \A i, j \in 1..Len(db_ret'.value) :
                db_ret'.value[i] = db_ret'.value[j] => i = j]_vars

\* a successful add of pairs that all were members already
C18_Witness ==
    /\ db_ret.op = "add_chunks_to_branch"
    /\ db_ret.ok
    /\ db_ret.readded

(***************************************************************************)
(* Claims about the Database handle (checked under SpecHandle)             *)
(***************************************************************************)
\* C19: a method of the Database handle touches the connection only while it
\* holds the mutex, so the calls of several threads execute one at a time: when
\* no call is running, the catalog and every returned value are those of some
\* sequential order of the calls that have returned, and so no call has seen
\* the rows of another call's unfinished batch.
C19_CallsAreSerialized ==
    /\ Cardinality({t \in Threads : h_calls[t].pc \in {"run", "return"}}) <= 1
    /\ \A t \in Threads : h_calls[t].pc \in {"run", "return"} => mutex = t
    /\ (\A t \in Threads : h_calls[t].pc \in {"idle", "lock"}) =>
           Serializable(h_log, chunks)

\* a get_chunk waits for the lock while a batch has written the row it asks for
C19_Witness ==
    \E t, u \in Threads :
        /\ h_calls[t].pc = "run"
        /\ h_calls[t].call.op = "upsert_chunks_batch"
        /\ h_calls[t].call.fail_at = 2
        /\ h_calls[t].at = 1
        /\ h_calls[u].pc = "lock"
        /\ h_calls[u].call.op = "get_chunk"
        /\ h_calls[u].call.arg = h_calls[t].call.arg[1].chunk_id

(***************************************************************************)
(* Claims about parse_files (checked under SpecParseFiles)                 *)
(***************************************************************************)
\* the files of a batch that parse, one after the other
ParsedSequentially(files) ==
    LET good == SelectSeq(files, LAMBDA f : parse_file_internal(f).ok)
    IN [k \in 1..Len(good) |->
           [path |-> good[k].path, chunks |-> parse_file_internal(good[k]).chunks,
            hash |-> xxhash_content(good[k].file.source)]]

\* C20: parse_files returns success for every batch, with exactly one entry,
\* in input order, for each file whose single-file parse succeeds and none for
\* a file whose parse fails; each entry carries the file's path, the chunks
\* parse_file returns for it and the hash of its whole content, whatever the
\* order in which the workers ran the files.
C20_ParseFilesDropsFailuresKeepsOrder ==
    pf_ret.op = "returned" =>
        /\ pf_ret.ok
        /\ pf_ret.value = ParsedSequentially(pf_files)

\* three files, the second of which fails to parse, finished last file first
C20_Witness ==
    /\ pf_ret.op = "returned"
    /\ Len(pf_files) = 3
    /\ ~parse_file_internal(pf_files[2]).ok
    /\ Len(pf_ret.value) = 2
    /\ pf_ret.value[1].path # pf_ret.value[2].path
    /\ pf_order = <<3, 2, 1>>

(***************************************************************************)
(* Claims about the inverted index file (checked under SpecIndex)          *)
(***************************************************************************)
\* C21: load after save (into a fresh index on the same path, or any other)
\* yields the chunk_tokens and the posting set of every term that save wrote,
\* and a total_token_count equal to the sum of all term frequencies in
\* chunk_tokens; load on a path with no file succeeds and changes nothing.
C21_SaveLoadRoundTrip ==
    [][ii_ret'.op = "load" =>
          /\ ii_ret'.value
          /\ IF index_file = NoFile
             THEN <<term_to_chunks, chunk_tokens, total_token_count>>'
                      = <<term_to_chunks, chunk_tokens, total_token_count>>
             ELSE /\ chunk_tokens' = ii_saved.chunk_tokens
                  /\ term_to_chunks' = ii_saved.term_to_chunks
                  /\ total_token_count' =
                        SumFun([c \in DOMAIN chunk_tokens' |->
                                   SumFun(chunk_tokens'[c])])]_vars

\* a fresh index loaded a file in which a term has two chunks
C21_Witness ==
    /\ ii_ret.op = "load"
    /\ ii_ret.fresh
    /\ index_file # NoFile
    /\ \E t \in DOMAIN term_to_chunks : Cardinality(term_to_chunks[t]) = 2
    /\ total_token_count > 2

(***************************************************************************)
(* Claims about init_db (checked under SpecSchema)                         *)
(***************************************************************************)
\* C22: whenever init_db has returned the connection, the stored
\* schema_version is 2 and all v1 and v2 tables are present.
C22_OpenEndsAtCurrentSchema ==
    init_pc = "ready" =>
        /\ ParseVersion(stored_version) = SCHEMA_VERSION
        /\ V1Tables \cup V2Tables \subseteq schema_tables

(***************************************************************************)
(* Claims about call graph queries (checked under SpecSymbols)             *)
(***************************************************************************)
\* the edge's source symbol exists and is a member of branch b
SourceOnBranch(e, b) ==
    /\ \E x \in symbols : x.id = e.from_symbol_id
    /\ <<b, e.from_symbol_id>> \in branch_symbols

\* rows lists, each once, exactly the edges of the set expected
ListsExactly(rows, expected) ==
    /\ \A i, j \in 1..Len(rows) : rows[i] = rows[j] => i = j
    /\ {rows[i] : i \in 1..Len(rows)} = {EdgeFromSql(e) : e \in expected}

\* C23: get_callers(name, branch) returns, each once, exactly the call edges
\* with that target_name whose source symbol exists and is a member of the
\* branch; get_callees(symbol_id, branch) returns exactly the edges from that
\* symbol when it exists and is a member of the branch, and nothing otherwise.
C23_CallersCalleesBranchFiltered ==
    [][/\ db_ret'.op = "get_callers" =>
            ListsExactly(db_ret'.value,
                         {e \in call_edges :
                             /\ e.target_name = db_ret'.args[1]
                             /\ SourceOnBranch(e, db_ret'.args[2])})
       /\ db_ret'.op = "get_callees" =>
            ListsExactly(db_ret'.value,
                         IF /\ \E x \in symbols : x.id = db_ret'.args[1]
                            /\ <<db_ret'.args[2], db_ret'.args[1]>> \in branch_symbols
                         THEN {e \in call_edges : e.from_symbol_id = db_ret'.args[1]}
                         ELSE {})]_vars

\* two edges call the name; the source of one is on the asked branch, the
\* source of the other exists but is only on the other branch
C23_Witness ==
    /\ db_ret.op = "get_callers"
    /\ Len(db_ret.value) = 1
    /\ \E e \in call_edges :
          /\ e.target_name = db_ret.args[1]
          /\ \E x \in symbols : x.id = e.from_symbol_id
          /\ <<db_ret.args[2], e.from_symbol_id>> \notin branch_symbols
          /\ \E b \in Branches : <<b, e.from_symbol_id>> \in branch_symbols

(***************************************************************************)
(* Claims about the call extractor (checked under SpecCalls)               *)
(***************************************************************************)
\* the member-access node kind of each language with a call query
MemberAccessKind ==
    [typescript |-> "member_expression", python |-> "attribute",
     rust |-> "field_expression", go |-> "selector_expression"]

\* the places of the captures of a match that carry one of the names
Captured(captures, names) == {i \in DOMAIN captures : captures[i].index \in names}

\* the site named by a captured node, at that node's start
SiteAt(node, call_type) ==
    [callee_name |-> node.text, line |-> node.row + 1, column |-> node.column,
     call_type |-> call_type]

Searchable(idx, st) ==
    UNION {{r.results[i].id : i \in 1..Len(r.results)} :
              r \in vs_search(idx, st, ValidVector, Cardinality(DOMAIN idx))}

\* every map of the store restricted to the keys other than key is unchanged
OtherKeysKept(st, st2, key) ==
    /\ \A k \in (DOMAIN st.key_to_id \cup DOMAIN st2.key_to_id) \ {key} :
          k \in DOMAIN st.key_to_id /\ k \in DOMAIN st2.key_to_id
          /\ st2.key_to_id[k] = st.key_to_id[k]
    /\ \A k \in (DOMAIN st.metadata \cup DOMAIN st2.metadata) \ {key} :
          k \in DOMAIN st.metadata /\ k \in DOMAIN st2.metadata
          /\ st2.metadata[k] = st.metadata[k]

\* remove returns true exactly for a mapped key, and then forgets the key,
\* its id and its metadata, lowers count() by one and keeps the other keys
RemoveResult ==
    vs_ret'.op = "remove" =>
        LET key == vs_ret'.key
        IN  /\ vs_ret'.value = (key \in DOMAIN stored.key_to_id)
            /\ vs_ret'.value =>
                 /\ count(stored') = count(stored) - 1
                 /\ key \notin DOMAIN stored'.key_to_id
                 /\ stored.key_to_id[key] \notin DOMAIN stored'.id_to_key
                 /\ stored.key_to_id[key] \notin DOMAIN vs_index'
                 /\ key \notin DOMAIN stored'.metadata
                 /\ OtherKeysKept(stored, stored', key)
                 /\ stored'.next_id = stored.next_id
            /\ ~vs_ret'.value => <<vs_index, stored>>' = <<vs_index, stored>>

\* C25: remove(key) returns true exactly when key is mapped; it then lowers
\* count() by one, takes key out of key_to_id and metadata and its id out of
\* id_to_key and the index, keeps every other key's id and metadata, and a
\* search after it does not return key; for an unknown key it returns false
\* and changes nothing.
C25_RemoveForgetsKey ==
    [][/\ RemoveResult
       /\ vs_ret'.op = "remove" /\ vs_ret'.value =>
             vs_ret'.key \notin Searchable(vs_index', stored')]_vars

\* the part of C25 that is about the maps alone
C25_RemoveUpdatesMaps == [][RemoveResult]_vars

\* the ids of the index that a search reports under the key
IdsReportedAs(idx, st, key) ==
    {i \in DOMAIN idx : i \in DOMAIN st.id_to_key /\ st.id_to_key[i] = key}

\* how often a result list names the key
Occurrences(results, key) ==
    Cardinality({i \in DOMAIN results : results[i].id = key})

\* a successful add of a present key drops the old id, maps the key to the
\* id next_id had, keeps count() and stores the new metadata
AddReplacesMaps ==
    vs_ret'.op = "add" /\ vs_ret'.ok /\ vs_ret'.key \in DOMAIN stored.key_to_id =>
        LET key == vs_ret'.key
            old_id == stored.key_to_id[key]
            id == stored.next_id
        IN  /\ old_id \notin DOMAIN vs_index'
            /\ old_id \notin DOMAIN stored'.id_to_key
            /\ stored'.key_to_id[key] = id
            /\ stored'.id_to_key[id] = key
            /\ id \in DOMAIN vs_index'
            /\ stored'.next_id = id + 1
            /\ count(stored') = count(stored)
            /\ stored'.metadata[key] = vs_ret'.metadata

\* C26: add(key, v, m) that succeeds for a key already present removes the
\* old id from the index and from id_to_key, gives the key the id next_id
\* had, leaves count() unchanged and stores m; afterwards only the new id is
\* reported under the key, so a search returns the key at most once.
C26_AddReplacesPresentKey ==
    [][/\ AddReplacesMaps
       /\ vs_ret'.op = "add" /\ vs_ret'.ok /\ vs_ret'.key \in DOMAIN stored.key_to_id =>
            /\ IdsReportedAs(vs_index', stored', vs_ret'.key) = {stored.next_id}
            /\ \A r \in vs_search(vs_index', stored', ValidVector,
                                  Cardinality(DOMAIN vs_index')) :
                    Occurrences(r.results, vs_ret'.key) <= 1]_vars

\* the part of C26 that is about the maps alone
C26_AddUpdatesMaps == [][AddReplacesMaps]_vars

\* keys, vectors and metadata of different lengths
Mismatched(b) == Len(b.keys) # Len(b.vectors) \/ Len(b.keys) # Len(b.metadata)

\* what add_batch(b) does in the current state
BatchOutcome(b, failing, order) ==
    add_batch(vs_index, stored, b.keys, b.vectors, b.metadata, failing, order)

\* what C27 says of one call of add_batch in the current state, in which
\* index.add fails at the positions in failing
AddBatchContract(b, failing) ==
    LET n == Len(b.keys)
        start_id == stored.next_id
        r == BatchOutcome(b, failing, InOrder(b))
        new_ids == {start_id + i - 1 : i \in 1..n}
    IN  /\ \A order \in Orders(DOMAIN b.keys) : BatchOutcome(b, failing, order) = r
        /\ Mismatched(b) => ~r.ok /\ r.index = vs_index /\ r.stored = stored
        /\ ~Mismatched(b) /\ n = 0 => r.ok /\ r.index = vs_index /\ r.stored = stored
        /\ ~Mismatched(b) /\ (\A i \in 1..n : Len(b.vectors[i]) = Dimensions)
              /\ failing \cap (1..n) # {} => ~r.ok
        /\ r.ok /\ n > 0 =>
              /\ \A i \in 1..n :
                    /\ r.stored.id_to_key[start_id + i - 1] = b.keys[i]
                    /\ r.stored.key_to_id[b.keys[i]] = start_id + i - 1
                    /\ r.stored.metadata[b.keys[i]] = b.metadata[i]
              /\ r.stored.next_id = start_id + n
        /\ ~r.ok =>
              /\ r.stored.next_id = start_id
              /\ new_ids \cap DOMAIN r.stored.id_to_key = {}
              /\ new_ids \cap Range(r.stored.key_to_id) = {}

\* batches that name no key twice
DistinctKeys(b) == \A i, j \in DOMAIN b.keys : b.keys[i] = b.keys[j] => i = j

\* the add_batch step just taken is a call with the batch b in which
\* index.add failed at the positions in failing
StepIsBatch(b, failing) ==
    LET r == BatchOutcome(b, failing, InOrder(b))
    IN  /\ vs_ret'.op = "add_batch"
        /\ vs_ret'.ok = r.ok
        /\ vs_index' = r.index
        /\ stored' = r.stored

\* C27: every add_batch call gives its keys the ids next_id, next_id + 1, ...
\* in order: when every insertion succeeds the i-th key maps to start_id + i
\* with the i-th metadata and next_id grows by the batch size; when an
\* insertion fails the call is an error, no new id of the batch is mapped
\* and next_id is unchanged; the outcome is the same for every order in
\* which the workers insert; mismatched lengths are an error before any
\* change; the empty batch changes nothing.
C27_AddBatchAssignsContiguousIds ==
    [][\A b \in BatchInputs, failing \in SUBSET (1..MaxBatch) :
          StepIsBatch(b, failing) => AddBatchContract(b, failing)]_vars

\* what C27 says holds in every reachable state of every add_batch call that
\* names no key twice
C27_DistinctKeysBatch ==
    \A b \in BatchInputs, failing \in SUBSET (1..MaxBatch) :
        DistinctKeys(b) => AddBatchContract(b, failing)

\* a search whose results are at most limit keys of key_to_id, each with the
\* metadata stored for it
SearchReturnsMappedKeys ==
    vs_ret'.op = "search" /\ ~vs_ret'.bad_dim =>
        /\ vs_ret'.ok
        /\ Len(vs_ret'.results) <= vs_ret'.limit
        /\ \A i \in DOMAIN vs_ret'.results :
              LET res == vs_ret'.results[i]
              IN  /\ res.id \in DOMAIN stored.key_to_id
                  /\ res.id \in DOMAIN stored.metadata
                  /\ res.metadata = stored.metadata[res.id]

\* a search reports the ids the index found that have an id_to_key entry,
\* under that entry, and leaves the store as it was
SearchSkipsUnmappedIds ==
    vs_ret'.op = "search" /\ ~vs_ret'.bad_dim =>
        /\ vs_ret'.ok
        /\ Len(vs_ret'.results) <= vs_ret'.limit
        /\ \E ids \in UsearchSearch(vs_index, vs_ret'.limit) :
              LET kept == SelectSeq(ids, LAMBDA i : i \in DOMAIN stored.id_to_key)
              IN  /\ Len(vs_ret'.results) = Len(kept)
                  /\ \A i \in DOMAIN kept :
                        vs_ret'.results[i].id = stored.id_to_key[kept[i]]
        /\ <<vs_index, stored, vs_files>>' = <<vs_index, stored, vs_files>>

\* C28: a search with a query of the right dimension returns at most limit
\* results, each naming a key of key_to_id with the metadata stored for that
\* key; ids of the index without an id_to_key entry are skipped; the store
\* is unchanged.
C28_SearchReturnsCurrentKeys ==
    [][SearchReturnsMappedKeys /\ SearchSkipsUnmappedIds]_vars

\* the part of C28 that is about the limit, the skipped ids and the state
C28_SearchSkipsAndKeepsState == [][SearchSkipsUnmappedIds]_vars

(***************************************************************************)
(* Claims about branch memberships and chunk collection (checked under     *)
(* Spec)                                                                   *)
(***************************************************************************)
\* the memberships of one branch
MembershipsOf(tbl, branch) == {p \in tbl : p[1] = branch}

\* C29: clear_branch(b) deletes exactly the memberships of b, returns how
\* many they were and leaves the memberships of the other branches, chunks,
\* embeddings and branch_symbols as they were; gc_orphan_chunks deletes
\* exactly the chunks whose id is in no membership of any branch, so every
\* chunk that is still on some branch stays, with the row it had.
C29_ClearBranchThenGcKeepsSharedChunks ==
    [][/\ db_ret'.op = "clear_branch" =>
            /\ branch_chunks' = branch_chunks \ MembershipsOf(branch_chunks, db_ret'.branch)
            /\ db_ret'.value = Cardinality(MembershipsOf(branch_chunks, db_ret'.branch))
            /\ \A b \in Branches \ {db_ret'.branch} :
                  MembershipsOf(branch_chunks', b) = MembershipsOf(branch_chunks, b)
            /\ <<chunks, embeddings, branch_symbols>>' = <<chunks, embeddings, branch_symbols>>
       /\ db_ret'.op = "gc_orphan_chunks" =>
            /\ chunks \ chunks' = {c \in chunks : \A p \in branch_chunks : p[2] # c.chunk_id}
            /\ chunks' \subseteq chunks
            /\ db_ret'.value = Cardinality(chunks \ chunks')
            /\ <<branch_chunks, embeddings, branch_symbols>>' =
                  <<branch_chunks, embeddings, branch_symbols>>]_vars

\* gc_orphan_chunks has run right after a clear_branch that removed two
\* memberships: the chunk of one was on no other branch and is gone, the
\* chunk of the other is on another branch and is still there
C29_Witness ==
    /\ db_ret.op = "gc_orphan_chunks"
    /\ db_ret.value >= 1
    /\ \E gone \in db_ret.cleared : \A c \in chunks : c.chunk_id # gone
    /\ \E kept \in db_ret.cleared :
          /\ \E c \in chunks : c.chunk_id = kept
          /\ \E p \in branch_chunks : p[2] = kept

(***************************************************************************)
(* Claims about deleting a file's call graph (checked under SpecSymbols)   *)
(***************************************************************************)
\* the ids of the symbols of one file
SymbolIdsOf(syms, file_path) == {x.id : x \in {y \in syms : y.file_path = file_path}}

\* the edges whose source is a symbol of the file
EdgesFrom(edges, syms, file_path) ==
    {e \in edges : e.from_symbol_id \in SymbolIdsOf(syms, file_path)}

\* a delete_symbols_by_file(f) step that comes right after
\* delete_call_edges_by_file(f)
SymbolsAfterEdges ==
    /\ db_ret.op = "delete_call_edges_by_file"
    /\ db_ret'.op = "delete_symbols_by_file"
    /\ db_ret'.file_path = db_ret.file_path

\* C30: delete_call_edges_by_file(f) deletes exactly the edges whose source
\* symbol exists with file_path f and returns their number; when
\* delete_symbols_by_file(f) follows it, it succeeds and leaves no symbol of
\* f and no edge whose source was a symbol of f, while the symbols of other
\* files and every edge that was left are unchanged.
C30_EdgesThenSymbolsDeletesFile ==
    [][/\ db_ret'.op = "delete_call_edges_by_file" =>
            /\ call_edges \ call_edges' = EdgesFrom(call_edges, symbols, db_ret'.file_path)
            /\ call_edges' \subseteq call_edges
            /\ db_ret'.value = Cardinality(call_edges \ call_edges')
            /\ symbols' = symbols
       /\ SymbolsAfterEdges =>
            /\ db_ret'.ok
            /\ symbols' = {x \in symbols : x.file_path # db_ret'.file_path}
            /\ db_ret'.value = Cardinality(symbols \ symbols')
            /\ call_edges' = call_edges
            /\ EdgesFrom(call_edges', symbols, db_ret'.file_path) = {}]_vars

\* with foreign keys enforced, a file's edges and then its symbols have been
\* deleted, at least one of each, and a symbol and an edge of another file
\* are still there
C30_Witness ==
    /\ foreign_keys
    /\ db_ret.op = "delete_symbols_by_file"
    /\ db_ret.ok
    /\ db_ret.value >= 1
    /\ db_ret.edges_deleted >= 1
    /\ \E x \in symbols : \E e \in call_edges : e.from_symbol_id = x.id

(***************************************************************************)
(* Claims about resolved call edges (checked under SpecSymbols)            *)
(***************************************************************************)
\* C31: resolve_call_edge(id, to) succeeds; the edge with that id, if there
\* is one, gets to_symbol_id = to and is_resolved = 1 and keeps its other
\* columns, every other edge and every other table is unchanged, and it
\* makes no difference whether to names a symbol.
C31_ResolveCallEdgeSetsTarget ==
    [][db_ret'.op = "resolve_call_edge" =>
        LET edge_id == db_ret'.args[1]
            to == db_ret'.args[2]
        IN  /\ db_ret'.ok
            /\ call_edges' =
                  {e \in call_edges : e.id # edge_id}
                  \cup {[id |-> e.id, from_symbol_id |-> e.from_symbol_id,
                         target_name |-> e.target_name, to_symbol_id |-> to,
                         call_type |-> e.call_type, line |-> e.line, col |-> e.col,
                         is_resolved |-> 1] : e \in {x \in call_edges : x.id = edge_id}}
            /\ (\A e \in call_edges : e.id # edge_id) => call_edges' = call_edges
            /\ <<symbols, branch_symbols, chunk_tables>>' =
                  <<symbols, branch_symbols, chunk_tables>>]_vars

\* an unresolved edge has just been resolved to a symbol id that names no
\* symbols row, next to an edge that is still unresolved
C31_Witness ==
    /\ db_ret.op = "resolve_call_edge"
    /\ db_ret.changed
    /\ \A x \in symbols : x.id # db_ret.args[2]
    /\ \E e \in call_edges :
          e.id = db_ret.args[1] /\ e.to_symbol_id = db_ret.args[2] /\ e.is_resolved = 1
    /\ \E e \in call_edges : e.id # db_ret.args[1] /\ e.is_resolved = 0

(***************************************************************************)
(* Claims about what the inverted index returns and keeps (checked under   *)
(* SpecIndex)                                                              *)
(***************************************************************************)
\* what a search step returns: ids of chunks of the index, each once, with
\* scores above 0 that do not increase along the list; nothing for a query
\* without tokens; and the index is left as it was
SearchResultShape ==
    LET res == ii_ret'.value
    IN  /\ \A i \in DOMAIN res : has_chunk(chunk_tokens, res[i][1]) /\ res[i][2] > 0
        /\ \A i, j \in DOMAIN res : res[i][1] = res[j][1] => i = j
        /\ \A i \in 1..(Len(res) - 1) : res[i][2] >= res[i + 1][2]
        /\ tokenize(ii_ret'.query) = <<>> => res = <<>>
        /\ <<term_to_chunks, chunk_tokens, total_token_count, index_file>>' =
              <<term_to_chunks, chunk_tokens, total_token_count, index_file>>

\* the ids a result list names
ResultIds(res) == {res[i][1] : i \in DOMAIN res}

\* C32 as stated: a search returns only chunks of the index, each once, with
\* positive scores in non-increasing order, nothing for a query without
\* tokens, changes no state, and never returns a chunk that remove_chunk
\* took out and add_chunk has not added again.
C32_SearchNeverReturnsRemoved ==
    [][ii_ret'.op = "search" =>
          /\ SearchResultShape
          /\ ResultIds(ii_ret'.value) \cap ii_removed.since_add = {}]_vars

\* C32 amended: as above, but a chunk that remove_chunk took out stays away
\* only until add_chunk adds it again or load reads it back from the file.
C32_SearchReturnsOnlyCurrentChunks ==
    [][ii_ret'.op = "search" =>
          /\ SearchResultShape
          /\ ResultIds(ii_ret'.value) \cap ii_removed.since_add_or_load = {}]_vars

\* a search has returned a chunk while a removed chunk is still listed in a
\* posting set of the index
C32_Witness ==
    /\ ii_ret.op = "search"
    /\ ii_ret.value # <<>>
    /\ \E c \in ii_removed.since_add_or_load :
          \E t \in DOMAIN term_to_chunks : c \in term_to_chunks[t]

\* the sum over the chunks of chunk_tokens of their term frequencies
TokensInChunks ==
    SumFun([c \in DOMAIN chunk_tokens |-> SumFun(chunk_tokens[c])])

\* C35: in every state reached by add_chunk (also of an id that is present),
\* remove_chunk, clear and load, total_token_count is the sum of the term
\* frequencies of the chunks in chunk_tokens.
C35_TotalIsSumOfFrequencies ==
    total_token_count = TokensInChunks

\* C35 holds as long as add_chunk is called for absent ids only: the total
\* differs from the sum only after an add_chunk of an id that was present
C35_TotalOffOnlyAfterReAdd ==
    [][(total_token_count = TokensInChunks /\ total_token_count' # TokensInChunks')
          => ii_ret'.op = "add_chunk" /\ ii_prev'.present]_vars

\* C36: in every state reached by add_chunk (also re-adding a present id with
\* other content), remove_chunk and clear, chunk c is in term_to_chunks[t]
\* exactly when chunk_tokens[c] contains t, and no posting set is empty.
C36_PostingsAgreeWithChunkTokens ==
    /\ \A t \in DOMAIN term_to_chunks :
          /\ term_to_chunks[t] # {}
          /\ \A c \in term_to_chunks[t] :
                c \in DOMAIN chunk_tokens /\ t \in DOMAIN chunk_tokens[c]
    /\ \A c \in DOMAIN chunk_tokens : \A t \in DOMAIN chunk_tokens[c] :
          t \in DOMAIN term_to_chunks /\ c \in term_to_chunks[t]

\* the part of C36 that holds: every term of a chunk lists the chunk, and no
\* posting set is empty
C36_ChunkTermsArePosted ==
    /\ \A t \in DOMAIN term_to_chunks : term_to_chunks[t] # {}
    /\ \A c \in DOMAIN chunk_tokens : \A t \in DOMAIN chunk_tokens[c] :
          t \in DOMAIN term_to_chunks /\ c \in term_to_chunks[t]

(***************************************************************************)
(* Claims about the line windows and the merging of the parser (checked    *)
(* under SpecParser)                                                       *)
(***************************************************************************)
\* the windows of `per` lines over `total` lines, each starting
\* OVERLAP_LINES lines before the end of the one before and the last one
\* ending at the last line; start counts from 0, end is exclusive
OverlapWindows(total, per) ==
    IF total = 0 THEN <<>>
    ELSE LET step == per - OVERLAP_LINES
             n == CHOOSE k \in 1..total :
                      /\ (k - 1) * step + per >= total
                      /\ \A j \in 1..(k - 1) : (j - 1) * step + per < total
         IN [i \in 1..n |-> [start |-> (i - 1) * step,
                             end |-> Min2((i - 1) * step + per, total)]]

\* the windows are `per` lines long except for a shorter last one, overlap
\* by OVERLAP_LINES lines, and every one of the `total` lines is in one
WindowsCover(w, total, per) ==
    /\ total = 0 <=> w = <<>>
    /\ total > 0 => w[1].start = 0 /\ w[Len(w)].end = total
    /\ \A i \in DOMAIN w : w[i].start < w[i].end /\ w[i].end - w[i].start <= per
    /\ \A i \in 1..(Len(w) - 1) :
          /\ w[i].end - w[i].start = per
          /\ w[i + 1].start = w[i].end - OVERLAP_LINES
          /\ w[i + 1].start + 1 <= w[i].end
    /\ \A line \in 1..total : \E i \in DOMAIN w : w[i].start < line /\ line <= w[i].end

\* the windows of at least MIN_CHUNK_SIZE bytes, as line numbers and content
KeptWindows(w, lines, first_line) ==
    LET text(x) == JoinLines(SubSeq(lines, x.start + 1, x.end))
        kept == SelectSeq(w, LAMBDA x : ByteLen(text(x)) >= MIN_CHUNK_SIZE)
    IN [i \in DOMAIN kept |-> <<first_line + kept[i].start,
                                first_line + kept[i].end - 1, text(kept[i])>>]

ChunkWindows(cs) == [i \in DOMAIN cs |-> <<cs[i].start_line, cs[i].end_line, cs[i].content>>]

\* the content and first line of the chunk extract_semantic_nodes builds
NodeText(source, node) ==
    IF node.comment_row # NoComment
    THEN [content |-> Slice(source, node.comment_row, 0, node.end_row, node.end_col),
          first_line |-> node.comment_row + 1]
    ELSE [content |-> Slice(source, node.start_row, node.start_col,
                            node.end_row, node.end_col),
          first_line |-> node.start_row + 1]

\* this step ran chunk_by_lines on the file
StepIsChunkByLines ==
    /\ p_pc' = "done"
    /\ p_pc = "start" \/ (p_pc = "walk" /\ p_chunks = <<>>)

\* this step ran split_large_chunk on the next semantic node
StepIsSplit ==
    /\ p_pc = "walk"
    /\ p_cursor' = p_cursor + 1
    /\ ByteLen(NodeText(p_file.source, p_file.nodes[p_cursor + 1]).content)
          > MAX_CHUNK_SIZE

\* C33: chunk_by_lines returns the 30-line windows and split_large_chunk the
\* 12-line windows of its input that are at least MIN_CHUNK_SIZE bytes long,
\* where each window starts 3 lines before the end of the one before, the
\* last window ends at the last line and the windows together hold every
\* line; a content without lines gives no chunk.
C33_LineWindowsCoverInput ==
    [][/\ StepIsChunkByLines =>
            LET lines == Lines(p_file.source)
                w == OverlapWindows(Len(lines), FALLBACK_LINES_PER_CHUNK)
            IN  /\ WindowsCover(w, Len(lines), FALLBACK_LINES_PER_CHUNK)
                /\ ChunkWindows(p_chunks') = KeptWindows(w, lines, 1)
                /\ Len(lines) = 0 => p_chunks' = <<>>
       /\ StepIsSplit =>
            LET node == NodeText(p_file.source, p_file.nodes[p_cursor + 1])
                lines == Lines(node.content)
                per == TARGET_CHUNK_SIZE \div SPLIT_BYTES_PER_LINE
                w == OverlapWindows(Len(lines), per)
                new == SubSeq(p_chunks', Len(p_chunks) + 1, Len(p_chunks'))
            IN  /\ WindowsCover(w, Len(lines), per)
                /\ SubSeq(p_chunks', 1, Len(p_chunks)) = p_chunks
                /\ IF Len(lines) <= 1
                   THEN /\ Len(new) = 1
                        /\ new[1].start_line = node.first_line
                        /\ new[1].content = node.content
                   ELSE ChunkWindows(new) = KeptWindows(w, lines, node.first_line)]_vars

\* chunk_by_lines cut three windows and dropped the last, short one, or
\* split_large_chunk cut three windows of a node
C33_Witness ==
    /\ p_pc = "done"
    /\ \/ /\ Len(Lines(p_file.source)) = 58
          /\ Len(p_chunks) = 2
          /\ \A i \in DOMAIN p_chunks : p_chunks[i].origin = "lines"
          /\ p_chunks[2].end_line = 57
       \/ /\ Len(p_chunks) >= 3
          /\ \A i \in 1..3 : p_chunks[i].origin = "split"
          /\ p_chunks[2].start_line = p_chunks[1].end_line - 2

\* the chunks emitted[i..j] taken together as merge_small_chunks joins them:
\* contents joined by a blank line, the first chunk's start_line and
\* chunk_type, the last chunk's end_line
RECURSIVE JoinedContent(_, _, _)
JoinedContent(emitted, i, j) ==
    IF i = j THEN emitted[i].content
    ELSE JoinedContent(emitted, i, j - 1) \o <<0>> \o emitted[j].content

Joined(emitted, i, j) ==
    [content |-> JoinedContent(emitted, i, j),
     start_line |-> emitted[i].start_line,
     end_line |-> emitted[j].end_line,
     chunk_type |-> emitted[i].chunk_type,
     origin |-> IF i = j THEN emitted[i].origin ELSE "merged"]

\* the three conditions under which the current chunk takes in the next one
MergeCondition(current, next) ==
    /\ ByteLen(current.content) < 2 * MIN_CHUNK_SIZE
    /\ ByteLen(current.content) + ByteLen(next.content) <= MAX_CHUNK_SIZE
    /\ next.start_line <= current.end_line + 1

\* with the emitted list cut after the positions in `cuts`: where the run
\* holding position k starts, and the runs as a list of joined chunks
RunStart(cuts, k) ==
    LET before == {0} \cup {c \in cuts : c < k}
    IN 1 + CHOOSE m \in before : \A c \in before : c <= m

Runs(emitted, cuts) ==
    LET sorted == CHOOSE o \in Orders(cuts \cup {Len(emitted)}) :
                      \A i \in 1..(Len(o) - 1) : o[i] < o[i + 1]
    IN [i \in DOMAIN sorted |-> Joined(emitted, RunStart(cuts, sorted[i]), sorted[i])]

\* this step ran merge_small_chunks on the emitted chunks
StepIsMerge ==
    /\ p_pc = "walk"
    /\ p_pc' = "done"
    /\ p_chunks # <<>>

\* C34: merge_small_chunks cuts the emitted list into runs of consecutive
\* chunks and returns each run joined into one chunk, in order; the current
\* chunk (a run so far) takes in the next chunk exactly when it is shorter
\* than 2 * MIN_CHUNK_SIZE, both lengths add up to at most MAX_CHUNK_SIZE and
\* the next chunk starts no later than the line after the current one ends.
C34_MergeExactlyWhenSmallAndAdjacent ==
    [][StepIsMerge =>
          \E cuts \in SUBSET (1..(Len(p_chunks) - 1)) :
              /\ p_chunks' = Runs(p_chunks, cuts)
              /\ \A k \in 1..(Len(p_chunks) - 1) :
                    k \notin cuts <=>
                        MergeCondition(Joined(p_chunks, RunStart(cuts, k), k),
                                       p_chunks[k + 1])]_vars

\* a merge joined the chunk of the first node with the chunk of the second,
\* which starts on the next line and is as long as the merge allows
C34_Witness ==
    /\ p_pc = "done"
    /\ Len(p_file.nodes) = 2
    /\ p_file.nodes[2].start_row = p_file.nodes[1].end_row + 1
    /\ Len(p_chunks) = 1
    /\ p_chunks[1].origin = "merged"
    /\ p_chunks[1].start_line = 1
    /\ p_chunks[1].end_line = p_file.nodes[2].end_row + 1
    /\ ByteLen(p_chunks[1].content) > MAX_CHUNK_SIZE

(***************************************************************************)
(* Claims about the counts and the failures of the vector store (checked   *)
(* under SpecStore)                                                        *)
(***************************************************************************)
\* no search of the store names a key twice
SearchKeysDistinct ==
    \A q \in Vectors, l \in Limits :
        \A r \in vs_search(vs_index, stored, q, l) :
            r.ok => \A i, j \in DOMAIN r.results :
                        r.results[i].id = r.results[j].id => i = j

\* C37: as long as every add, add_batch and remove so far has succeeded,
\* count() is the number of vectors the index holds, metadata and key_to_id
\* have the same keys, every id of the index has an id_to_key entry and no
\* search returns a key twice; a batch may name a key twice.
C37_CountMatchesIndex ==
    ~vs_failed =>
        /\ count(stored) = Cardinality(DOMAIN vs_index)
        /\ DOMAIN stored.metadata = DOMAIN stored.key_to_id
        /\ DOMAIN vs_index \subseteq DOMAIN stored.id_to_key
        /\ SearchKeysDistinct

\* the parts of C37 that hold: metadata and key_to_id have the same keys and
\* every id of the index has an id_to_key entry
C37_KeysAndIdsMapped ==
    ~vs_failed =>
        /\ DOMAIN stored.metadata = DOMAIN stored.key_to_id
        /\ DOMAIN vs_index \subseteq DOMAIN stored.id_to_key

\* key k is mapped both ways to an id that the index holds
MappedToIndex(idx, st, k) ==
    /\ k \in DOMAIN st.key_to_id
    /\ st.key_to_id[k] \in DOMAIN st.id_to_key
    /\ st.id_to_key[st.key_to_id[k]] = k
    /\ st.key_to_id[k] \in DOMAIN idx

\* this step is an add or add_batch that got past its checks of the input,
\* handed ids to the index and returned an error
StepFailedAfterValidation ==
    /\ vs_ret'.op \in {"add", "add_batch"}
    /\ ~vs_ret'.ok
    /\ vs_ret'.handed # {}

\* C38: an add or add_batch that returns an error after its input checks
\* passed leaves the store as it was: every key that was mapped to an id of
\* the index still is, metadata is unchanged and next_id is unchanged.
C38_FailedAddLeavesStore ==
    [][StepFailedAfterValidation =>
          /\ \A k \in Keys : MappedToIndex(vs_index, stored, k)
                                => MappedToIndex(vs_index', stored', k)
          /\ stored'.metadata = stored.metadata
          /\ stored'.next_id = stored.next_id]_vars

\* the parts of C38 that hold: a failed add or add_batch leaves metadata as
\* it was, and a failed add_batch leaves next_id as it was
C38_FailedAddKeepsMetadata ==
    [][StepFailedAfterValidation =>
          /\ stored'.metadata = stored.metadata
          /\ vs_ret'.op = "add_batch" => stored'.next_id = stored.next_id]_vars

(***************************************************************************)
(* Claims about the stored schema version (checked under SpecSchema)       *)
(***************************************************************************)
\* C39: at every point, also between the statements of migrate_schema and
\* after an init_db that failed part-way, the stored schema_version is not
\* ahead of the tables: version 2 means the v2 tables exist, and version 1
\* or more means the v1 tables exist.
C39_VersionNotAheadOfTables ==
    /\ current_version(schema_tables, stored_version) >= 2 =>
          V2Tables \subseteq schema_tables
    /\ current_version(schema_tables, stored_version) >= 1 =>
          V1Tables \subseteq schema_tables

\* the part of C39 that holds: a stored version of 1 or more means that the
\* v1 tables exist
C39_V1TablesBehindVersion ==
    current_version(schema_tables, stored_version) >= 1 =>
        V1Tables \subseteq schema_tables

(***************************************************************************)
(* Claims about resolved call edges (checked under SpecSymbols)            *)
(***************************************************************************)
\* the edge is marked resolved and names a target symbol
Resolved(e) == e.is_resolved = 1 /\ e.to_symbol_id # NULL

\* C40: the edge that resolve_call_edge has just resolved is still resolved
\* after the next catalog operation unless that operation deleted the edge,
\* and in every state an edge has is_resolved set exactly when its
\* to_symbol_id is not NULL.
C40_ResolvedEdgeStaysResolved ==
    [][/\ (db_ret.op = "resolve_call_edge" /\ db_ret.changed) =>
              \A e \in call_edges' : e.id = db_ret.args[1] => Resolved(e)
       /\ \A e \in call_edges' : e.is_resolved = 1 <=> e.to_symbol_id # NULL]_vars

\* the parts of C40 that hold: an edge has is_resolved set exactly when its
\* to_symbol_id is not NULL, and only an upsert_call_edge of the same id
\* turns a resolved edge into an unresolved one
C40_OnlyUpsertUnresolves ==
    [][/\ \A e \in call_edges' : e.is_resolved = 1 <=> e.to_symbol_id # NULL
       /\ \A e \in call_edges, x \in call_edges' :
             (e.id = x.id /\ Resolved(e) /\ ~Resolved(x)) =>
                 /\ db_ret'.op = "upsert_call_edge"
                 /\ db_ret'.value.id = e.id]_vars

=============================================================================
